---- MODULE Spec2Model ----
(***************************************************************************)
(* Voice-interaction controller of src/app/page.tsx (component Home).      *)
(*                                                                         *)
(* The component is a React function component.  Every function of its     *)
(* body (canStartRecognition, startRecognition, speakResponse, ...) is     *)
(* re-created on each render and closes over the useState values of THAT   *)
(* render; refs (xxxRef.current) are shared and always live.  A callback   *)
(* registered once keeps the closure of the render that registered it:     *)
(*   - the recognition handlers (onstart/onresult/onend/onerror) are set   *)
(*     in an effect with dependency list [] (page.tsx:1583-1698), so they  *)
(*     and everything they call run with the values of the mount render;   *)
(*   - a setTimeout callback runs with the values of the render whose      *)
(*     function scheduled it;                                              *)
(*   - a setInterval callback of an effect runs with the values of the     *)
(*     render in which the effect's dependencies last changed.             *)
(* The model therefore passes a closure record c to each function and      *)
(* stores it in each pending timer.                                        *)
(*                                                                         *)
(* Time is counted in ticks of 1000 ms; delays of the source are rounded   *)
(* to the nearest tick (150/200/500 ms delays become 0: they run before    *)
(* the next tick).  A setInterval callback may run at any tick that is at  *)
(* least one period after its effect was re-created.                       *)
(*                                                                         *)
(* Three specifications share the actions:                                 *)
(*   Spec          from mount: the capture session, its restarts, the      *)
(*                 probe of the synthesizer, the health and recovery       *)
(*                 intervals, the external audio player;                   *)
(*   SpecExchange  from the state at rest that Spec reaches: a transcript, *)
(*                 the backend's answer, its announcement, a due reminder; *)
(*   SpecGate      from mount on a browser without speech recognition:     *)
(*                 gestures, buttons, announcements, external audio.       *)
(***************************************************************************)
EXTENDS Integers, FiniteSets, Sequences, TLC

\* ---------------------------------------------------------------- constants
CooldownTicks == 2
OnEndDelay == 2
OnErrorDelay == 5
MgmtDelay == 1
MonitorPeriod == 2
MonitorRestartDelay == 2
HealthPeriod == 5
HealthDelay == 4
RecoveryPeriod == 10
RecoveryDelay == 2
InvalidStateRetry == 2
OtherErrorRetry == 3
WatchdogTicks == 8
TextOnlyTicks == 4
PermDelay == 4
SpeakDelay == 0
UtterEndRestart == 1
FallbackDelay == 2
SilenceTicks == 1
TestSpeechDelay == 1
TestSpeechTimeout == 3
RecoveryAge == 31

\* ------------------------------------------------------------------- bounds
MaxUtter == 1     \* transcripts the recognizer delivers in a run
MaxSpeak == 2     \* speakResponse calls in a run
MaxAudio == 1     \* playbacks the external audio player starts in a run
MaxRecErr == 1    \* error events of the recognizer in a run
MaxReminders == 1 \* due reminders announced in a run
MaxFallback == 2  \* invocations of the tone fallback in a run

VARIABLES
    \* React state of Home (useState)
    isProcessing, isSpeaking, isListening, isAudioPlaying, useFallbackAudio,
    hasUserInteracted, fallbackAudioContext, pendingGameLaunch,
    \* refs
    shouldListenRef, isStartingRef, isStoppingRef, sinceRestart,
    \* closures held by the interval effects; ticks since their re-creation
    monitorEnv, healthAud, recoveryAud, quiet,
    \* pending setTimeout callbacks
    timers,
    \* platform: capabilities, recognizer, synthesizer, audio contexts
    hasRecognition, synthAvailable, envClass,
    recState, synthQueue, synthCancelled, synthPaused, ctxState, ctxCount,
    \* requests awaiting an answer (backend fetch, reminder store)
    inflight,
    \* environment budgets
    utterCount, speakCalls, audioCount, recErrCount, reminderCount,
    \* observations: what the last step did (lastStart, doneAgain,
    \* launchAgain, ctxBeforeGesture, ungatedAudio) and what has happened so far
    lastStart, sinceStart, done, launches, doneAgain, launchAgain, spkAge,
    synthEvent, ctxBeforeGesture, ungatedAudio, gateRefused,
    \* desired-to-listen when the suspension began, and how it compares at its end
    suspendObs,
    \* this step passed a transcript to the backend while Processing or Speaking
    sentWhileBusy,
    \* this step handled a failed backend call
    backendFailed,
    \* the recognition has reported 'not-allowed'
    denied,
    \* a text handed to the text functions, and what they returned
    text, detected, extracted,
    \* what the last step did to the synthesizer and the recognizer
    obs,
    \* ticks since lastRestartAttemptRef was written, up to RecoveryAge, or
    \* Untracked
    restartAge,
    \* the tone fallback: its invocations, the aiResponse state of Home
    \* (page.tsx:805), and the invocation that ended in the last step
    fallback,
    \* one output on the tone tier, timed in milliseconds
    tone,
    \* the utterance the recognizer is delivering results for, and how often
    \* it has been passed on to handleSendToGemini
    heard,
    \* what is on screen: the feature a detected intent launches (showTicTacToe
    \* and the like, page.tsx:3122-3156; "closed": closed by the user with no
    \* intent detected since)
    show

vars == << isProcessing, isSpeaking, isListening, isAudioPlaying, useFallbackAudio,
           hasUserInteracted, fallbackAudioContext, pendingGameLaunch,
           shouldListenRef, isStartingRef, isStoppingRef, sinceRestart,
           monitorEnv, healthAud, recoveryAud, quiet,
           timers, hasRecognition, synthAvailable, envClass,
           recState, synthQueue, synthCancelled, synthPaused, ctxState, ctxCount,
           inflight, utterCount, speakCalls, audioCount, recErrCount, reminderCount,
           lastStart, sinceStart, done, launches, doneAgain, launchAgain, spkAge,
           synthEvent, ctxBeforeGesture, ungatedAudio, gateRefused, suspendObs,
           sentWhileBusy, backendFailed, denied, text, detected, extracted,
           fallback, obs, restartAge, tone, heard, show >>

AgeCap == WatchdogTicks + 1

Min(a, b) == IF a < b THEN a ELSE b

\* no recognition.start() in this step
NoStart == [on |-> FALSE, lis |-> FALSE, starting |-> FALSE, aud |-> FALSE,
            gap |-> CooldownTicks]

\* ------------------------------------------------------------ state record
\* The whole state as one record, so that a handler is a function from state
\* to state and handlers compose the way the source's calls nest.
\* spoke: speechSynthesis.speak was called for a reply; marker: the value of
\* useFallbackAudio at that call; late: a timer armed by one speakResponse
\* call acted while the Speaking flag of a later call was set; demoted: the
\* error event 'interrupted' set useFallbackAudio.
\* The results of an utterance are followed where its emissions are counted
\* (phase "none": no result delivered yet), and not elsewhere (phase "off").
NoHeard == [ phase |-> "none", intent |-> "none", sent |-> 0 ]
Unheard == heard = [NoHeard EXCEPT !.phase = "off"]

\* no output on the tone tier yet
NoTone ==
    [ phase |-> "idle", words |-> 0, duration |-> 0, elapsed |-> 0,
      completed |-> FALSE, at |-> 0 ]

\* threw: recognition.start() threw this error; retry: the delay of the
\* retry the catch block scheduled (0: none); stop: what stopRecognition did
\* ("noop", or "done" with the session as it found it in wasActive and
\* wasStopping); ended: recognition.onend ran; resume: the resume of this
\* context ("new", "existing") has just failed, and available: the handle was
\* handed on all the same; play: a tone was emitted on a context found
\* "running", or found suspended and "retried", or found suspended and used
\* "blind"; hung: the watchdog has completed a call whose utterance the
\* synthesizer still holds.
NoObs ==
    [ spoke |-> FALSE, marker |-> FALSE, late |-> FALSE, demoted |-> FALSE,
      threw |-> "none", retry |-> 0,
      stop |-> "none", wasActive |-> FALSE, wasStopping |-> FALSE,
      ended |-> FALSE, reopened |-> FALSE, stray |-> FALSE,
      resume |-> "none", available |-> FALSE, play |-> "none",
      hung |-> FALSE ]

\* nothing launched is on screen; adopted: the speakResponse call that took
\* its game from the pendingGameLaunch state instead of its argument (0: none)
NoShow == [ game |-> "hidden", adopted |-> 0 ]

\* The age of lastRestartAttemptRef is counted, where the 30 s of the recovery
\* check matter, up to the next call of recognition.start(); where it is
\* Untracked the recovery check may find it old at any time after the
\* cooldown.
Untracked == 0 - 1
Untimed == restartAge = Untracked
Aged(a, n) == IF a = Untracked THEN a ELSE n

Cur ==
    [ proc |-> isProcessing, spk |-> isSpeaking, lis |-> isListening,
      aud |-> isAudioPlaying, fb |-> useFallbackAudio, hui |-> hasUserInteracted,
      ctx |-> fallbackAudioContext, pgl |-> pendingGameLaunch,
      should |-> shouldListenRef, starting |-> isStartingRef,
      stopping |-> isStoppingRef, since |-> sinceRestart,
      monitorEnv |-> monitorEnv, healthAud |-> healthAud, recoveryAud |-> recoveryAud,
      quiet |-> quiet,
      timers |-> timers, rec |-> recState, queue |-> synthQueue,
      cancelled |-> synthCancelled, paused |-> synthPaused,
      ctxState |-> ctxState, ctxCount |-> ctxCount, inflight |-> inflight,
      utterCount |-> utterCount, speakCalls |-> speakCalls, audioCount |-> audioCount,
      recErrCount |-> recErrCount, reminderCount |-> reminderCount,
      lastStart |-> NoStart, sinceStart |-> sinceStart, done |-> done,
      launches |-> launches, doneAgain |-> FALSE, launchAgain |-> FALSE,
      spkAge |-> spkAge, synthEvent |-> synthEvent,
      ctxBeforeGesture |-> FALSE, ungatedAudio |-> FALSE, gateRefused |-> FALSE,
      suspendObs |-> IF isAudioPlaying THEN suspendObs ELSE "none",
      sentWhileBusy |-> FALSE, backendFailed |-> FALSE, denied |-> denied,
      fallback |-> [fallback EXCEPT !.ended = 0], obs |-> NoObs,
      age |-> restartAge, tone |-> tone, heard |-> heard, show |-> show ]

Assign(s) ==
    /\ isProcessing' = s.proc /\ isSpeaking' = s.spk /\ isListening' = s.lis
    /\ isAudioPlaying' = s.aud /\ useFallbackAudio' = s.fb
    /\ hasUserInteracted' = s.hui /\ fallbackAudioContext' = s.ctx
    /\ pendingGameLaunch' = s.pgl
    /\ shouldListenRef' = s.should /\ isStartingRef' = s.starting
    /\ isStoppingRef' = s.stopping /\ sinceRestart' = s.since
    /\ monitorEnv' = s.monitorEnv /\ healthAud' = s.healthAud
    /\ recoveryAud' = s.recoveryAud /\ quiet' = s.quiet
    /\ timers' = s.timers /\ recState' = s.rec /\ synthQueue' = s.queue
    /\ synthCancelled' = s.cancelled /\ synthPaused' = s.paused
    /\ ctxState' = s.ctxState /\ ctxCount' = s.ctxCount /\ inflight' = s.inflight
    /\ utterCount' = s.utterCount /\ speakCalls' = s.speakCalls
    /\ audioCount' = s.audioCount /\ recErrCount' = s.recErrCount
    /\ reminderCount' = s.reminderCount
    /\ lastStart' = s.lastStart /\ sinceStart' = s.sinceStart /\ done' = s.done
    /\ launches' = s.launches /\ doneAgain' = s.doneAgain
    /\ launchAgain' = s.launchAgain
    /\ spkAge' = s.spkAge /\ synthEvent' = s.synthEvent
    /\ ctxBeforeGesture' = s.ctxBeforeGesture /\ ungatedAudio' = s.ungatedAudio
    /\ gateRefused' = s.gateRefused /\ suspendObs' = s.suspendObs
    /\ sentWhileBusy' = s.sentWhileBusy /\ backendFailed' = s.backendFailed
    /\ denied' = s.denied /\ fallback' = s.fallback
    /\ obs' = s.obs /\ restartAge' = s.age /\ tone' = s.tone
    /\ heard' = s.heard /\ show' = s.show
    /\ UNCHANGED << hasRecognition, synthAvailable, envClass,
                    text, detected, extracted >>

\* --------------------------------------------------------------- closures
\* The useState values a function of one render sees.
Closure(s) ==
    [ proc |-> s.proc, spk |-> s.spk, lis |-> s.lis, aud |-> s.aud,
      fb |-> s.fb, hui |-> s.hui, ctx |-> s.ctx, pgl |-> s.pgl ]

\* The mount render: every useState initial value (page.tsx:763-824).
MountClosure ==
    [ proc |-> FALSE, spk |-> FALSE, lis |-> FALSE, aud |-> FALSE,
      fb |-> FALSE, hui |-> FALSE, ctx |-> FALSE, pgl |-> FALSE ]

\* What a restart callback reads of its closure: isAudioPlaying, isListening.
RestartEnv(c) == [MountClosure EXCEPT !.aud = c.aud, !.lis = c.lis]
\* What the speech callbacks read of theirs.
SpeechEnv(c) ==
    [MountClosure EXCEPT !.aud = c.aud, !.lis = c.lis, !.proc = c.proc,
                         !.fb = c.fb, !.hui = c.hui, !.ctx = c.ctx]

\* ----------------------------------------------------------------- timers
Timer(kind, rem, call, game, c) ==
    [kind |-> kind, rem |-> rem, call |-> call, game |-> game, c |-> c]

\* setTimeout(() => { if (canStartRecognition()) startRecognition() }, rem);
\* the callbacks the three intervals schedule are told apart by their kind
Restart(rem, c) == Timer("restart", rem, 0, FALSE, RestartEnv(c))
RestartBy(src, rem, c) == Timer(src, rem, 0, FALSE, RestartEnv(c))
RestartKinds == {"restart", "monitorRestart", "healthRestart", "recoveryRestart"}
Pending(kind) == {t \in timers : t.kind = kind}

\* ------------------------------------------------------------- recognizer
\* recognition.stop() on the platform: a started session begins to end.
PlatformStop(r) == IF r \in {"starting", "running"} THEN "stopping" ELSE r

canStartRecognitionNoCooldown(s, c) ==
    /\ hasRecognition
    /\ ~c.aud
    /\ ~c.lis /\ ~s.starting /\ s.should

\* page.tsx:1420-1450.  recognition.state is no property of the platform's
\* SpeechRecognition object, so the check of lines 1431-1440 never blocks.
canStartRecognition(s, c) ==
    /\ hasRecognition
    /\ ~c.aud
    /\ s.since >= CooldownTicks
    /\ ~c.lis /\ ~s.starting /\ s.should

\* the errors recognition.start() may throw
StartErrors == {"InvalidStateError", "NotAllowedError", "other"}

\* the catch block of page.tsx:1483-1526 with a marker left set
startThrowsKeepsMarker(s, c, err) ==
    LET s1 == [s EXCEPT !.obs.threw = err]
    IN CASE err = "InvalidStateError" ->
              [s1 EXCEPT !.stopping = FALSE, !.lis = FALSE,
                         !.rec = PlatformStop(@),
                         !.timers = @ \cup {Restart(InvalidStateRetry, c)},
                         !.obs.retry = InvalidStateRetry]
         [] err = "NotAllowedError" -> s1
         [] OTHER ->
              [s1 EXCEPT !.timers = @ \cup {Restart(OtherErrorRetry, c)},
                         !.obs.retry = OtherErrorRetry]

\* the catch block of page.tsx:1483-1526
startThrows(s, c, err) ==
    LET s1 == [s EXCEPT !.starting = FALSE, !.obs.threw = err]
    IN CASE err = "InvalidStateError" ->
              [s1 EXCEPT !.stopping = FALSE, !.lis = FALSE,
                         !.rec = PlatformStop(@),
                         !.timers = @ \cup {Restart(InvalidStateRetry, c)},
                         !.obs.retry = InvalidStateRetry]
         [] err = "NotAllowedError" -> s1
         [] OTHER ->
              [s1 EXCEPT !.timers = @ \cup {Restart(OtherErrorRetry, c)},
                         !.obs.retry = OtherErrorRetry]

\* page.tsx:1468-1469 and the call of line 1481; lastStart records the
\* circumstances of that call.
startAttempt(s) ==
    [s EXCEPT !.starting = TRUE, !.since = 0, !.sinceStart = 0,
              !.age = Untracked,
              !.lastStart = [on |-> TRUE, lis |-> s.lis,
                             starting |-> s.starting,
                             aud |-> s.aud, gap |-> s.sinceStart]]

\* page.tsx:1453-1528 with a start() that throws err on an idle recognizer;
\* on a started one it throws InvalidStateError.
startRecognitionRejected(s, c, err) ==
    IF ~hasRecognition \/ ~s.should \/ c.aud \/ ~canStartRecognition(s, c)
    THEN s
    ELSE startThrows(startAttempt(s), c,
                     IF s.rec = "idle" THEN err ELSE "InvalidStateError")

\* page.tsx:1453-1528 with a start() that succeeds on an idle recognizer
startRecognition(s, c) ==
    IF ~hasRecognition \/ ~s.should \/ c.aud \/ ~canStartRecognition(s, c)
    THEN s
    ELSE IF s.rec = "idle"
         THEN [startAttempt(s) EXCEPT !.rec = "starting"]
         ELSE startThrows(startAttempt(s), c, "InvalidStateError")

\* page.tsx:1531-1550
stopRecognition(s, c) ==
    LET s1 == [s EXCEPT !.obs.wasActive = s.lis, !.obs.wasStopping = s.stopping]
    IN IF ~hasRecognition \/ ~c.lis \/ s.stopping
       THEN [s1 EXCEPT !.obs.stop = "noop"]
       ELSE [s1 EXCEPT !.stopping = TRUE, !.rec = PlatformStop(@),
                       !.obs.stop = "done"]

\* ---------------------------------------------------- render and effects
ManagementEffectNoStop(s) ==
    LET should == ~s.proc /\ ~s.spk
        s1 == [s EXCEPT !.should = should]
    IN IF should /\ ~s.lis /\ hasRecognition /\ ~s.starting /\ ~s.stopping
       THEN [s1 EXCEPT !.timers = @ \cup {Restart(MgmtDelay, Closure(s))}]
       ELSE s1

\* page.tsx:1701-1722, run when isProcessing, isSpeaking or isListening changed
ManagementEffect(s) ==
    LET should == ~s.proc /\ ~s.spk
        s1 == [s EXCEPT !.should = should]
    IN IF should
       THEN IF ~s.lis /\ hasRecognition /\ ~s.starting /\ ~s.stopping
            THEN [s1 EXCEPT !.timers = @ \cup {Restart(MgmtDelay, Closure(s))}]
            ELSE s1
       ELSE IF s.lis /\ hasRecognition /\ ~s.stopping
            THEN stopRecognition(s1, Closure(s))
            ELSE s1

\* The re-render after a handler changed state: the effects whose
\* dependencies changed run again, and the interval effects are re-created
\* with the new render's closure (page.tsx:1722, 1783, 1815, 2766).
Render(s) ==
    LET d3 == <<s.proc, s.spk, s.lis>> # <<isProcessing, isSpeaking, isListening>>
        d2 == <<s.spk, s.proc>> # <<isSpeaking, isProcessing>>
        d4 == d3 \/ s.ctx # fallbackAudioContext
        s1 == IF d3 THEN ManagementEffect(s) ELSE s
    IN [s1 EXCEPT
          !.monitorEnv = IF d2 THEN [aud |-> s.aud, lis |-> s.lis] ELSE @,
          !.healthAud = IF d3 THEN s.aud ELSE @,
          !.quiet = IF d3 THEN 0 ELSE @,
          !.recoveryAud = IF d4 THEN s.aud ELSE @]

\* the record is computed once and then assigned
Set(s) == \E r \in {s} : Assign(r)

Do(s) == Set(Render(s))

\* ------------------------------------------------------------ audio gate
\* page.tsx:862-892 (requestSpeechPermission and the age-group buttons).
\* born is the state the platform leaves the new context in once the resume
\* of lines 875-882 has settled.
createAudioContextOnInteraction(s, c, born) ==
    IF c.ctx \/ ~c.hui
    THEN s
    ELSE [s EXCEPT !.ctx = TRUE, !.ctxState = born,
                   !.ctxCount = Min(@ + 1, 2),
                   !.ctxBeforeGesture = @ \/ ~s.hui]

\* page.tsx:895-945, as called from playFallbackAudio (line 1025), that is
\* with a closure in which fallbackAudioContext is null.  It returns true
\* exactly when c.hui holds.
createAndResumeAudioContext(s, c, born) ==
    IF ~c.hui
    THEN [s EXCEPT !.gateRefused = s.hui /\ ~s.ctx]
    ELSE IF c.ctx
         THEN [s EXCEPT !.ctxState = IF @ = "suspended" THEN born ELSE @]
         ELSE [s EXCEPT !.ctx = TRUE, !.ctxState = born,
                        !.ctxCount = Min(@ + 1, 2),
                        !.ctxBeforeGesture = @ \/ ~s.hui]

\* page.tsx:1076-1125: oscillator.start() on the context
playFallbackAudioInternal(s) ==
    [s EXCEPT !.ungatedAudio = @ \/ ~s.hui]

\* page.tsx:1020-1073.  With no context in the closure the function creates
\* one and, whatever the outcome, ends in the text-only display: the retry
\* of lines 1035-1044 tests the closure's fallbackAudioContext, which is the
\* null it has just tested at line 1023.
playFallbackAudio(s, c, born) ==
    IF ~c.ctx
    THEN createAndResumeAudioContext(s, c, born)
    ELSE playFallbackAudioInternal(
             [s EXCEPT !.ctxState = IF @ = "suspended" THEN born ELSE @])

\* ----------------------------------------------------------- speech output
\* page.tsx:1856-1884
launchGame(s, k) ==
    [s EXCEPT !.launches = @ \cup {k}, !.launchAgain = @ \/ k \in s.launches,
              !.show.game = "shown",
              !.obs.reopened = (s.show.game = "closed"),
              !.obs.stray = (k = s.show.adopted)]

\* the completion of speakResponse call k is signalled
Completed(s, k) ==
    [s EXCEPT !.done = @ \cup {k}, !.doneAgain = @ \/ k \in s.done]

\* clearTimeout(emergencyTimer)
clearEmergency(s, k) ==
    [s EXCEPT !.timers = {t \in @ : ~(t.kind = "emergency" /\ t.call = k)}]

\* speechSynthesis.cancel(): every queued utterance is dropped; the platform
\* may report each with an error event 'interrupted' / 'canceled'.
synthCancel(s) ==
    [s EXCEPT !.queue = << >>,
              !.cancelled = @ \cup {s.queue[i] : i \in 1..Len(s.queue)}]

Utterance(k, game, c) ==
    [call |-> k, game |-> game, c |-> SpeechEnv(c), started |-> FALSE]

\* The tail shared by the fallback branches of startSpeech
\* (page.tsx:2520-2538, 2550-2569, 2690-2706)
fallbackTail(s, c, k, game, born) ==
    LET s1 == playFallbackAudio(s, c, born)
        s2 == IF game
              THEN [s1 EXCEPT !.timers = @ \cup
                        {Timer("launch", FallbackDelay, k, TRUE, MountClosure)}]
              ELSE s1
        s3 == IF ~c.proc
              THEN [s2 EXCEPT !.timers = @ \cup {Restart(FallbackDelay, c)}]
              ELSE s2
    IN Completed(s3, k)

\* page.tsx:2516-2708.  throws: synth.speak(utter) raises (line 2684/2686).
startSpeech(s, c, k, game, throws, born) ==
    IF c.fb \/ envClass = "linux"
    THEN fallbackTail(s, c, k, game, born)
    ELSE IF envClass = "vnc"
         THEN fallbackTail([s EXCEPT !.fb = TRUE], c, k, game, born)
         ELSE LET s0 == [s EXCEPT !.obs.spoke = TRUE, !.obs.marker = s.fb]
              IN IF throws
                 THEN fallbackTail([s0 EXCEPT !.fb = TRUE], c, k, game, born)
                 ELSE [s0 EXCEPT !.queue = Append(@, Utterance(k, game, c)),
                                 !.ungatedAudio = @ \/ ~s.hui]

\* page.tsx:2360-2443.  Both branches on speechPermissionGranted cancel the
\* synthesizer and schedule startSpeech after 150 ms.
speakResponse(s, c, pendingGame) ==
    LET k == s.speakCalls + 1
        gameToLaunch == pendingGame \/ c.pgl
        s1 == [s EXCEPT !.spk = TRUE, !.speakCalls = k, !.spkAge = 0,
                        !.synthEvent = FALSE,
                        !.show.adopted = IF ~pendingGame /\ c.pgl THEN k ELSE @]
        s2 == IF gameToLaunch
              THEN [s1 EXCEPT !.timers = @ \cup
                        {Timer("emergency", WatchdogTicks, k, TRUE, SpeechEnv(c))}]
              ELSE s1
    IN IF synthAvailable
       THEN [synthCancel(s2) EXCEPT !.timers = @ \cup
                 {Timer("startSpeech", SpeakDelay, k, gameToLaunch, SpeechEnv(c))}]
       ELSE [s2 EXCEPT !.timers = @ \cup
                 {Timer("textOnly", TextOnlyTicks, k, gameToLaunch, SpeechEnv(c))}]

\* the timer of call k runs during the output of a later call
Late(s, k) == k < s.speakCalls /\ s.spk

\* the synthesizer holds the utterance of call k, speaking or pending
InQueue(s, k) == \E i \in 1..Len(s.queue) : s.queue[i].call = k

\* the callback of page.tsx:2372-2381
emergencyFire(s, c, k) ==
    LET s1 == Completed([launchGame(s, k) EXCEPT !.pgl = FALSE, !.spk = FALSE,
                                                 !.obs.late = Late(s, k),
                                                 !.obs.hung = InQueue(s, k)], k)
    IN IF ~c.proc /\ canStartRecognition(s1, c) THEN startRecognition(s1, c) ELSE s1

\* the callback of page.tsx:2428-2441
textOnlyFire(s, c, k, game) ==
    LET s1 == [clearEmergency(s, k) EXCEPT !.spk = FALSE]
        s2 == IF game THEN [launchGame(s1, k) EXCEPT !.pgl = FALSE] ELSE s1
        s3 == Completed(s2, k)
    IN IF ~c.proc /\ canStartRecognition(s3, c) THEN startRecognition(s3, c) ELSE s3

\* utter.onend, page.tsx:2583-2602
utterOnEnd(s, u) ==
    LET s1 == [clearEmergency(s, u.call) EXCEPT !.spk = FALSE]
        s2 == IF u.game THEN [launchGame(s1, u.call) EXCEPT !.pgl = FALSE] ELSE s1
        s3 == IF ~u.c.proc
              THEN [s2 EXCEPT !.timers = @ \cup {Restart(UtterEndRestart, u.c)}]
              ELSE s2
    IN Completed(s3, u.call)

\* utter.onerror, page.tsx:2604-2681
utterOnError(s, u, kind, born) ==
    LET s0 == [clearEmergency(s, u.call) EXCEPT
                   !.fb = TRUE, !.spk = FALSE,
                   !.obs.demoted = (kind = "interrupted" /\ ~s.fb)]
    IN CASE kind = "not-allowed" ->
              Completed([s0 EXCEPT !.timers = @ \cup
                   {Timer("permDone", PermDelay, u.call, u.game, u.c)}], u.call)
         [] kind = "interrupted" ->
              LET s2 == IF u.game
                        THEN [launchGame(s0, u.call) EXCEPT !.pgl = FALSE] ELSE s0
                  s3 == IF ~u.c.proc
                        THEN [s2 EXCEPT !.timers = @ \cup
                                  {Restart(UtterEndRestart, u.c)}]
                        ELSE s2
              IN Completed(s3, u.call)
         [] OTHER -> fallbackTail(s0, u.c, u.call, u.game, born)

\* the callback of page.tsx:2619-2635
permDoneFire(s, c, k, game) ==
    LET s1 == IF game THEN [launchGame(s, k) EXCEPT !.pgl = FALSE] ELSE s
    IN IF ~c.proc
       THEN [s1 EXCEPT !.timers = @ \cup {Restart(FallbackDelay, c)}]
       ELSE s1

\* the callback of page.tsx:2524-2527
launchFire(s, k) ==
    [launchGame(s, k) EXCEPT !.pgl = FALSE, !.obs.late = Late(s, k)]

\* ---------------------------------------------------------- coordinator
\* page.tsx:2204-2216 and the intent branches of 2218-2246: the part of
\* handleSendToGemini that runs before its first await.
handleSendToGemini(s, c, intent) ==
    IF c.proc \/ c.spk \/ c.aud
    THEN s
    ELSE LET id == s.utterCount + 1
             s1 == [s EXCEPT !.proc = TRUE, !.utterCount = id,
                             !.sentWhileBusy = s.proc \/ s.spk,
                             !.heard.sent = IF s.heard.phase = "off" THEN @
                                            ELSE Min(@ + 1, 2)]
         IN IF intent = "reminder"
            THEN [s1 EXCEPT !.inflight = @ \cup
                      {[id |-> id, kind |-> "reminder", game |-> FALSE]}]
            ELSE [s1 EXCEPT !.pgl = IF intent = "game" THEN TRUE ELSE @,
                            !.show.game = IF intent = "game" /\ @ = "closed"
                                          THEN "hidden" ELSE @,
                            !.inflight = @ \cup
                      {[id |-> id, kind |-> "chat", game |-> (intent = "game")]}]

\* page.tsx:2223-2237 and 2256-2276: the rest of handleSendToGemini, run
\* when createReminder or fetch settles.  data.audioMode && hasUserInteracted
\* (line 2264) reads the closure; the recognition handlers, the only callers,
\* hold the mount closure, where hasUserInteracted is false.
handleSendToGeminiSettledSilent(s, c, r, ok) ==
    LET s1 == [s EXCEPT !.inflight = @ \ {r},
                        !.backendFailed = (r.kind = "chat" /\ ~ok)]
        s2 == IF r.kind = "chat" /\ ok
              THEN speakResponse(s1, c, r.game)
              ELSE IF r.kind = "chat" THEN s1
              ELSE speakResponse(s1, c, FALSE)
    IN [s2 EXCEPT !.proc = FALSE]

handleSendToGeminiSettled(s, c, r, ok) ==
    LET s1 == [s EXCEPT !.inflight = @ \ {r},
                        !.backendFailed = (r.kind = "chat" /\ ~ok)]
        s2 == IF r.kind = "chat" /\ ok
              THEN speakResponse(s1, c, r.game)
              ELSE speakResponse(s1, c, FALSE)
    IN [s2 EXCEPT !.proc = FALSE]

handleAudioStateChangeKeepPhase(s, isPlaying) ==
    IF isPlaying
    THEN [synthCancel(s) EXCEPT !.aud = TRUE, !.proc = FALSE, !.spk = FALSE,
                                !.pgl = FALSE, !.paused = synthAvailable,
                                !.rec = IF hasRecognition THEN PlatformStop(@) ELSE @,
                                !.suspendObs = IF s.aud THEN @
                                               ELSE IF s.should THEN "wasTrue"
                                               ELSE "wasFalse"]
    ELSE [s EXCEPT !.aud = FALSE]

\* page.tsx:1187-1228.  suspendObs keeps shouldListenRef as it was when the
\* playback was reported.
handleAudioStateChange(s, isPlaying) ==
    IF isPlaying
    THEN [synthCancel(s) EXCEPT !.aud = TRUE, !.proc = FALSE, !.spk = FALSE,
                                !.pgl = FALSE, !.paused = synthAvailable,
                                !.rec = IF hasRecognition THEN PlatformStop(@) ELSE @,
                                !.suspendObs = IF s.aud THEN @
                                               ELSE IF s.should THEN "wasTrue"
                                               ELSE "wasFalse"]
    ELSE [s EXCEPT !.aud = FALSE, !.proc = FALSE, !.spk = FALSE]

\* recognition.onstart, page.tsx:1594-1600
recognitionOnStart(s) == [s EXCEPT !.lis = TRUE, !.starting = FALSE]

\* recognition.onend with the Stopping marker left set
recognitionOnEndKeepsStopping(s, c) ==
    LET s1 == [s EXCEPT !.lis = FALSE, !.starting = FALSE, !.obs.ended = TRUE]
    IN IF s.should /\ ~c.spk /\ ~c.proc
       THEN [s1 EXCEPT !.timers = @ \cup {Restart(OnEndDelay, c)}]
       ELSE s1

\* recognition.onend, page.tsx:1643-1659 (closure: the mount render)
recognitionOnEnd(s, c) ==
    LET s1 == [s EXCEPT !.lis = FALSE, !.starting = FALSE, !.stopping = FALSE,
                        !.obs.ended = TRUE]
    IN IF s.should /\ ~c.spk /\ ~c.proc
       THEN [s1 EXCEPT !.timers = @ \cup {Restart(OnEndDelay, c)}]
       ELSE s1

\* recognition.onerror, page.tsx:1661-1682
recognitionOnError(s, c, kind) ==
    LET s1 == [s EXCEPT !.lis = FALSE, !.starting = FALSE, !.stopping = FALSE]
    IN IF kind = "not-allowed"
       THEN [s1 EXCEPT !.denied = TRUE]
       ELSE IF s.should /\ ~c.spk /\ ~c.proc
            THEN [s1 EXCEPT !.timers = @ \cup {Restart(OnErrorDelay, c)}]
            ELSE s1

\* clearTimeout(silenceTimeoutRef.current), page.tsx:1623-1625
clearSilence(s) == [s EXCEPT !.timers = {t \in @ : t.kind # "silence"}]

\* recognition.onresult, page.tsx:1602-1641.  The intent stands for the text:
\* the class detectReminderFromText / detectGameFromText put it in.
recognitionOnResult(s0, c, final, intent) ==
    LET s == IF s0.heard.phase = "off" THEN s0
             ELSE [s0 EXCEPT !.heard =
                      [phase |-> IF final THEN "final" ELSE "interim",
                       intent |-> IF final THEN "none" ELSE intent,
                       sent |-> IF s0.heard.phase = "interim"
                                THEN s0.heard.sent ELSE 0]]
    IN
    IF c.spk \/ c.proc
    THEN s
    ELSE IF final
         THEN handleSendToGemini(clearSilence(s), c, intent)
         ELSE [clearSilence(s) EXCEPT !.timers = @ \cup
                   {[Timer("silence", SilenceTicks, 0, FALSE, MountClosure)
                        EXCEPT !.game = (intent = "game"),
                               !.call = IF intent = "reminder" THEN 1 ELSE 0]}]

Intents == {"none", "game", "reminder"}
TimerIntent(t) ==
    IF t.call = 1 THEN "reminder" ELSE IF t.game THEN "game" ELSE "none"

\* --------------------------------------------------------------- actions
Born == {"running", "suspended"}

Tick ==
    /\ \A t \in timers : t.rem > 0
    /\ Set([Cur EXCEPT
              !.timers = {[t EXCEPT !.rem = @ - 1] : t \in timers},
              !.since = Min(@ + 1, CooldownTicks),
              !.age = Aged(@, Min(@ + 1, RecoveryAge)),
              !.quiet = Min(@ + 1, RecoveryPeriod),
              !.sinceStart = Min(@ + 1, CooldownTicks),
              !.spkAge = IF isSpeaking THEN Min(@ + 1, AgeCap) ELSE 0])

Due(kind) == {t \in timers : t.kind = kind /\ t.rem = 0}
Without(t) == [Cur EXCEPT !.timers = @ \ {t}]

\* a restart callback: if (canStartRecognition()) startRecognition()
FireRestart ==
    \E t \in {x \in timers : x.kind \in RestartKinds /\ x.rem = 0} :
        Do(IF canStartRecognition(Without(t), t.c)
           THEN startRecognition(Without(t), t.c)
           ELSE Without(t))

RecOnStart ==
    /\ recState = "starting"
    /\ Do(recognitionOnStart([Cur EXCEPT !.rec = "running"]))

RecOnEnd ==
    /\ recState \in {"running", "stopping"}
    /\ Do(recognitionOnEnd([Cur EXCEPT !.rec = "idle"], MountClosure))

RecOnError ==
    /\ recState \in {"starting", "running"}
    /\ recErrCount < MaxRecErr
    /\ \E kind \in {"not-allowed", "no-speech"} :
         Do(recognitionOnError([Cur EXCEPT !.rec = "stopping",
                                           !.recErrCount = @ + 1],
                               MountClosure, kind))

RecOnResult ==
    /\ recState \in {"running", "stopping"}
    /\ isListening
    /\ utterCount + Cardinality({t \in timers : t.kind = "silence"}) < MaxUtter
    /\ \E final \in BOOLEAN, intent \in Intents :
         Do(recognitionOnResult(Cur, MountClosure, final, intent))

\* the silence callback of page.tsx:1629-1634
FireSilence ==
    \E t \in Due("silence") :
        Do(handleSendToGemini(Without(t), MountClosure, TimerIntent(t)))

\* fetch / createReminder settles, successfully or not (a timeout aborts the
\* fetch, which rejects it)
RequestSettled ==
    \E r \in inflight, ok \in BOOLEAN :
        /\ speakCalls < MaxSpeak
        /\ Do(handleSendToGeminiSettled(Cur, MountClosure, r, ok))

\* page.tsx:1731-1752: a due reminder is announced
ReminderDue ==
    /\ reminderCount < MaxReminders
    /\ speakCalls < MaxSpeak
    /\ Do(speakResponse([Cur EXCEPT !.reminderCount = @ + 1], MountClosure, FALSE))

FireStartSpeech ==
    \E t \in Due("startSpeech"), throws \in BOOLEAN, born \in Born :
        Do(startSpeech(Without(t), t.c, t.call, t.game, throws, born))

FireEmergency ==
    \E t \in Due("emergency") : Do(emergencyFire(Without(t), t.c, t.call))

FireTextOnly ==
    \E t \in Due("textOnly") : Do(textOnlyFire(Without(t), t.c, t.call, t.game))

FirePermDone ==
    \E t \in Due("permDone") : Do(permDoneFire(Without(t), t.c, t.call, t.game))

FireLaunch ==
    \E t \in Due("launch") : Do(launchFire(Without(t), t.call))

\* The synthesizer delivers the events of the utterance at the head of its
\* queue; while paused (page.tsx:1201, never resumed) it delivers none.
HeadUtter == synthQueue[1]
Popped == [Cur EXCEPT !.queue = Tail(@), !.synthEvent = TRUE]

\* utter.onstart, page.tsx:2579-2581
UtterStart ==
    /\ Len(synthQueue) > 0 /\ ~synthPaused
    /\ HeadUtter.call > 0 /\ ~HeadUtter.started
    /\ Do([Cur EXCEPT !.spk = TRUE, !.synthEvent = TRUE,
                      !.queue[1].started = TRUE])

UtterEnd ==
    /\ Len(synthQueue) > 0 /\ ~synthPaused
    /\ HeadUtter.call > 0 /\ HeadUtter.started
    /\ Do(utterOnEnd(Popped, HeadUtter))

UtterError ==
    /\ Len(synthQueue) > 0 /\ ~synthPaused
    /\ HeadUtter.call > 0
    /\ \E kind \in {"not-allowed", "synthesis-failed"}, born \in Born :
         Do(utterOnError(Popped, HeadUtter, kind, born))

\* the error event 'interrupted' of an utterance that cancel() dropped
UtterInterrupted ==
    \E u \in synthCancelled, born \in Born :
        /\ u.call > 0
        /\ Do(utterOnError([Cur EXCEPT !.cancelled = @ \ {u}, !.synthEvent = TRUE],
                           u, "interrupted", born))

\* page.tsx:948-1017: the probe of the synthesizer, 1000 ms after mount
testSpeechAPI(s) ==
    IF envClass # "normal"
    THEN [s EXCEPT !.fb = TRUE]
    ELSE IF synthAvailable
         THEN [s EXCEPT !.queue = Append(@, Utterance(0, FALSE, MountClosure)),
                        !.ungatedAudio = @ \/ ~s.hui,
                        !.timers = @ \cup
                          {Timer("testTimeout", TestSpeechTimeout, 0, FALSE, MountClosure)}]
         ELSE [s EXCEPT !.fb = TRUE]

FireTestSpeech ==
    \E t \in Due("testSpeech") : Do(testSpeechAPI(Without(t)))

\* page.tsx:997-1000
FireTestTimeout ==
    \E t \in Due("testTimeout") : Do([Without(t) EXCEPT !.fb = TRUE])

\* testUtter.onend (page.tsx:1002-1006) and testUtter.onerror (986-990)
TestUtterEvent ==
    /\ Len(synthQueue) > 0 /\ ~synthPaused
    /\ HeadUtter.call = 0
    /\ \/ Do([Cur EXCEPT !.queue = Tail(@), !.fb = FALSE,
                         !.timers = {t \in @ : t.kind # "testTimeout"}])
       \/ Do([Cur EXCEPT !.queue = Tail(@), !.fb = TRUE])

TestUtterInterrupted ==
    \E u \in synthCancelled :
        /\ u.call = 0
        /\ Do([Cur EXCEPT !.cancelled = @ \ {u}, !.fb = TRUE])

\* the interval of page.tsx:1755-1783
\* the monitor of page.tsx:1755-1783 without the reset of line 1762
speechMonitorKeepsSpeaking(s) ==
    IF synthAvailable /\ s.spk /\ Len(s.queue) = 0
    THEN IF ~s.proc /\ ~s.starting
         THEN [s EXCEPT !.timers = @ \cup
                   {RestartBy("monitorRestart", MonitorRestartDelay, s.monitorEnv)}]
         ELSE s
    ELSE s

speechMonitor(s) ==
    IF synthAvailable /\ s.spk /\ Len(s.queue) = 0
    THEN LET s1 == [s EXCEPT !.spk = FALSE]
         IN IF ~s.proc /\ ~s.starting
            THEN [s1 EXCEPT !.timers = @ \cup
                      {RestartBy("monitorRestart", MonitorRestartDelay, s.monitorEnv)}]
            ELSE s1
    ELSE s

\* The interval is re-created whenever isSpeaking changes, so it first runs
\* one period later; its period is not shorter than the delay of the
\* callback it schedules.
SpeechMonitor ==
    /\ isSpeaking /\ spkAge >= MonitorPeriod
    /\ Pending("monitorRestart") = {}
    /\ Do(speechMonitor(Cur))

healthCheckAnyPlatform(s) ==
    IF s.should /\ ~s.lis /\ ~s.spk /\ ~s.proc
       /\ ~s.starting /\ ~s.stopping
    THEN [s EXCEPT !.timers = @ \cup
              {RestartBy("healthRestart", HealthDelay,
                         [aud |-> s.healthAud, lis |-> s.lis])}]
    ELSE s

\* the interval of page.tsx:1786-1815
healthCheck(s) ==
    IF s.should /\ ~s.lis /\ hasRecognition /\ ~s.spk /\ ~s.proc
       /\ ~s.starting /\ ~s.stopping
    THEN [s EXCEPT !.timers = @ \cup
              {RestartBy("healthRestart", HealthDelay,
                         [aud |-> s.healthAud, lis |-> s.lis])}]
    ELSE s

\* quiet counts the ticks since isListening, isSpeaking or isProcessing last
\* changed, which is when the interval was re-created.
HealthCheck ==
    /\ quiet >= HealthPeriod
    /\ Pending("healthRestart") = {}
    /\ Do(healthCheck(Cur))

\* the interval of page.tsx:2720-2766.  sinceRestart is kept up to the
\* cooldown only; long tells whether more than 30 s have passed since
\* lastRestartAttemptRef was written (line 2734).
systemRecovery(s, long, born) ==
    LET s1 == IF hasRecognition /\ ~s.lis /\ ~s.spk /\ ~s.proc /\ ~s.starting
                 /\ ~s.stopping /\ s.should /\ long
              THEN [s EXCEPT !.starting = FALSE, !.stopping = FALSE, !.since = 0,
                             !.age = Aged(@, 0),
                             !.timers = @ \cup
                               {RestartBy("recoveryRestart", RecoveryDelay,
                                          [aud |-> s.recoveryAud, lis |-> s.lis])}]
              ELSE s
    IN IF s.ctx /\ s.ctxState = "suspended"
       THEN [s1 EXCEPT !.ctxState = born]
       ELSE s1

SystemRecovery ==
    /\ quiet >= RecoveryPeriod
    /\ Pending("recoveryRestart") = {}
    /\ \E born \in Born, long \in BOOLEAN :
         /\ long => sinceRestart >= CooldownTicks
         /\ long => restartAge \in {Untracked, RecoveryAge}
         /\ Do(systemRecovery(Cur, long, born))

\* page.tsx:836-847: the first click, touch or key press
UserGesture ==
    /\ ~hasUserInteracted
    /\ Do([Cur EXCEPT !.hui = TRUE])

\* page.tsx:1180-1184: the click on "Enable Microphone"; the document's
\* click listener (836-847) runs after the button's handler.
RequestSpeechPermission ==
    \E born \in Born :
        Do([createAudioContextOnInteraction(Cur, Closure(Cur), born)
               EXCEPT !.hui = TRUE])

\* page.tsx:3094-3098: the click on "Test Fallback", itself a gesture
TestFallbackButton ==
    \E born \in Born :
        Do([playFallbackAudio(Cur, Closure(Cur), born) EXCEPT !.hui = TRUE])

\* AudioPlayer.tsx:153-223: playAudio notifies the parent and plays the file
ExternalAudioStart ==
    /\ audioCount < MaxAudio
    /\ Do([handleAudioStateChange(Cur, TRUE)
              EXCEPT !.audioCount = @ + 1, !.ungatedAudio = @ \/ ~hasUserInteracted])

\* AudioPlayer.tsx:193-207: the file ended or failed
ExternalAudioStop ==
    /\ isAudioPlaying
    /\ LET s2 == Render(handleAudioStateChange(Cur, FALSE))
       IN Set([s2 EXCEPT !.suspendObs =
                   IF s2.should = (suspendObs = "wasTrue")
                   THEN "restored" ELSE "changed"])

\* ------------------------------------------------------ specifications
\* The state once the mount effects have run: the recognizer is created and
\* started (page.tsx:1583-1687), the management effect has run once
\* (1701-1722), the probe of the synthesizer is scheduled (948-955).
Mounted ==
    /\ hasRecognition \in BOOLEAN
    /\ synthAvailable \in BOOLEAN
    /\ envClass \in {"normal", "linux", "vnc"}
    /\ isProcessing = FALSE /\ isSpeaking = FALSE /\ isListening = FALSE
    /\ isAudioPlaying = FALSE /\ useFallbackAudio = FALSE
    /\ hasUserInteracted = FALSE /\ fallbackAudioContext = FALSE
    /\ pendingGameLaunch = FALSE
    /\ shouldListenRef = TRUE
    /\ isStartingRef = hasRecognition
    /\ isStoppingRef = FALSE
    /\ sinceRestart = IF hasRecognition THEN 0 ELSE CooldownTicks
    /\ monitorEnv = [aud |-> FALSE, lis |-> FALSE]
    /\ healthAud = FALSE /\ recoveryAud = FALSE /\ quiet = 0
    /\ timers = {Timer("testSpeech", TestSpeechDelay, 0, FALSE, MountClosure)}
    /\ recState = IF hasRecognition THEN "starting" ELSE "idle"
    /\ synthQueue = << >> /\ synthCancelled = {} /\ synthPaused = FALSE
    /\ ctxState = "none" /\ ctxCount = 0
    /\ inflight = {}
    /\ utterCount = 0 /\ speakCalls = 0 /\ audioCount = 0 /\ recErrCount = 0
    /\ reminderCount = 0
    /\ lastStart = [NoStart EXCEPT !.on = hasRecognition]
    /\ sinceStart = IF hasRecognition THEN 0 ELSE CooldownTicks
    /\ done = {} /\ launches = {} /\ doneAgain = FALSE /\ launchAgain = FALSE
    /\ spkAge = 0 /\ synthEvent = FALSE
    /\ ctxBeforeGesture = FALSE /\ ungatedAudio = FALSE /\ gateRefused = FALSE
    /\ suspendObs = "none" /\ sentWhileBusy = FALSE /\ backendFailed = FALSE
    /\ denied = FALSE /\ obs = NoObs /\ show = NoShow

\* no text is being analysed
NoText == text = "" /\ detected = "none" /\ extracted = "none"

\* the tone fallback has not been invoked and the display is empty
NoFallback ==
    fallback = [ inv |-> [k \in 1..MaxFallback |->
                            [phase |-> "idle", stages |-> << >>]],
                 aiResponse |-> "", ended |-> 0 ]
    /\ tone = NoTone

Init == Mounted /\ NoText /\ NoFallback /\ Untimed /\ Unheard

\* The capture session from mount on: the recognizer and its restarts, the
\* probe of the synthesizer, the health and recovery intervals, and the
\* external audio player suspending the controller.
Next ==
    \/ Tick
    \/ FireRestart
    \/ RecOnStart \/ RecOnEnd \/ RecOnError
    \/ FireTestSpeech \/ FireTestTimeout \/ TestUtterEvent \/ TestUtterInterrupted
    \/ HealthCheck \/ SystemRecovery
    \/ ExternalAudioStart \/ ExternalAudioStop

Spec == Init /\ [][Next]_vars

\* The controller at rest: the probe has ended (useFallbackAudio tells how),
\* the recognizer runs, no callback is pending.  Spec reaches these states.
AtRestShowing(sh) ==
    /\ hasRecognition = TRUE
    /\ synthAvailable \in BOOLEAN
    /\ envClass \in {"normal", "linux", "vnc"}
    /\ isProcessing = FALSE /\ isSpeaking = FALSE /\ isListening = TRUE
    /\ isAudioPlaying = FALSE
    /\ useFallbackAudio \in (IF synthAvailable /\ envClass = "normal"
                             THEN BOOLEAN ELSE {TRUE})
    /\ hasUserInteracted = FALSE /\ fallbackAudioContext = FALSE
    /\ pendingGameLaunch = FALSE
    /\ shouldListenRef = TRUE
    /\ isStartingRef = FALSE
    /\ isStoppingRef = FALSE
    /\ sinceRestart = CooldownTicks
    /\ monitorEnv = [aud |-> FALSE, lis |-> FALSE]
    /\ healthAud = FALSE /\ recoveryAud = FALSE /\ quiet = RecoveryPeriod
    /\ timers = {}
    /\ recState = "running"
    /\ synthQueue = << >> /\ synthCancelled = {} /\ synthPaused = FALSE
    /\ ctxState = "none" /\ ctxCount = 0
    /\ inflight = {}
    /\ utterCount = 0 /\ speakCalls = 0 /\ audioCount = 0 /\ recErrCount = 0
    /\ reminderCount = 0
    /\ lastStart = NoStart
    /\ sinceStart = CooldownTicks
    /\ done = {} /\ launches = {} /\ doneAgain = FALSE /\ launchAgain = FALSE
    /\ spkAge = 0 /\ synthEvent = FALSE
    /\ ctxBeforeGesture = FALSE /\ ungatedAudio = FALSE /\ gateRefused = FALSE
    /\ suspendObs = "none" /\ sentWhileBusy = FALSE /\ backendFailed = FALSE
    /\ denied = FALSE /\ obs = NoObs /\ show = sh

AtRest == AtRestShowing(NoShow)

InitListening == AtRest /\ NoText /\ NoFallback /\ Untimed /\ Unheard

\* One exchange: a transcript, the backend's answer, its announcement on
\* either tier, and a due reminder announced meanwhile.
NextExchange ==
    \/ Tick
    \/ FireRestart
    \/ RecOnStart \/ RecOnEnd
    \/ RecOnResult \/ FireSilence
    \/ RequestSettled \/ ReminderDue
    \/ FireStartSpeech \/ FireEmergency \/ FireTextOnly \/ FirePermDone \/ FireLaunch
    \/ UtterStart \/ UtterEnd \/ UtterError \/ UtterInterrupted
    \/ SpeechMonitor

SpecExchange == InitListening /\ [][NextExchange]_vars

\* The audio gate on a browser without speech recognition: gestures, the
\* buttons, the probe, reminders announced, the external audio player.
InitGate == Init /\ hasRecognition = FALSE

NextGate ==
    \/ Tick \/ FireRestart
    \/ FireTestSpeech \/ FireTestTimeout \/ TestUtterEvent \/ TestUtterInterrupted
    \/ ReminderDue
    \/ FireStartSpeech \/ FireTextOnly \/ FirePermDone
    \/ UtterStart \/ UtterEnd \/ UtterError \/ UtterInterrupted
    \/ SpeechMonitor \/ HealthCheck \/ SystemRecovery
    \/ UserGesture \/ RequestSpeechPermission \/ TestFallbackButton
    \/ ExternalAudioStart \/ ExternalAudioStop

SpecGate == InitGate /\ [][NextGate]_vars

\* ------------------------------------------------------------- claims
\* C1 as stated: capture being Active (isListening) never holds together
\* with Speaking or Processing, the wait for the platform's 'ended' event
\* included.
C1_MutualExclusion ==
    isListening => ~isSpeaking /\ ~isProcessing

\* C1: capture being Active holds together with Speaking or Processing only
\* while a stop of the recognition has been requested and its 'ended' event
\* is awaited.
C1_ActiveOnlyWhileStopping ==
    isListening /\ (isSpeaking \/ isProcessing)
        => isStoppingRef /\ recState = "stopping"

\* a transcript was accepted while the recognizer still reports Active
C1_Witness ==
    isListening /\ isProcessing /\ isStoppingRef /\ utterCount > 0

\* C2: Processing and Speaking are never both true, and neither is true
\* while the coordinator is Suspended (isAudioPlaying).
C2_OnePhase ==
    /\ ~(isProcessing /\ isSpeaking)
    /\ isAudioPlaying => ~isProcessing /\ ~isSpeaking

\* C3: recognition.start() is never invoked while the capture session is
\* Starting (isStartingRef) or Active (isListening).
C3_NoDuplicateStart ==
    lastStart.on => ~lastStart.lis /\ ~lastStart.starting

\* C4: a recognition.start() is invoked no sooner than 2000 ms after the
\* previous one.
C4_Cooldown ==
    lastStart.on => lastStart.gap >= CooldownTicks

\* the recognizer is started again after an error while another scheduled
\* retry is still pending
C4_Witness ==
    lastStart.on /\ recErrCount > 0 /\ \E t \in timers : t.kind \in RestartKinds

\* C5: the completion of a speakResponse call is delivered no more than once.
C5_CompletionOnce ==
    ~doneAgain

\* C6: whether or not a game is queued, Speaking does not outlast the 8 s of
\* the watchdog when the synthesizer delivers no event for the call.
C6_Watchdog ==
    isSpeaking /\ ~synthEvent => spkAge <= WatchdogTicks

\* C7: the game queued with a speakResponse call is launched no more than
\* once.
C7_LaunchOnce ==
    ~launchAgain

\* C8: no audio context is constructed before the first gesture is recorded,
\* and once it is recorded the fallback entry point constructs the context it
\* needs.
C8_GateEnforcement ==
    ~ctxBeforeGesture /\ ~gateRefused

\* C9: no audio-producing platform call (speechSynthesis.speak, oscillator
\* start, audio element play) is made while hasUserInteracted is false.
C9_NoAudioBeforeGesture ==
    ~ungatedAudio

\* C10: recognition.start() is never invoked while the coordinator is
\* Suspended (isAudioPlaying).
C10_SuspensionBlocksStart ==
    lastStart.on => ~lastStart.aud

\* C11: while the coordinator is Suspended (isAudioPlaying) no utterance of a
\* speakResponse call is handed to the synthesizer: entering Suspended
\* cancels the queue, and no caller speaks until playback stops.
C11_SuspensionBlocksOutput ==
    isAudioPlaying => \A i \in 1..Len(synthQueue) : synthQueue[i].call = 0

C13_TranscriptsDropped ==
    ~sentWhileBusy

\* C14: when the backend call fails (error, no reply text, or the 15 s
\* abort), the handler leaves Processing and enters Speaking through
\* speakResponse: the apology is the latest speak call and its start is
\* scheduled.
C14_FailureAbsorbed ==
    backendFailed =>
        /\ ~isProcessing
        /\ isSpeaking
        /\ \E t \in timers : /\ t.kind \in {"startSpeech", "textOnly"}
                             /\ t.call = speakCalls

\* a failed call has just been handled and its apology is being spoken
C14_Witness ==
    /\ backendFailed /\ isSpeaking /\ ~isProcessing /\ utterCount > 0
    /\ \A r \in inflight : r.id # utterCount

\* C15: after the recognition has reported 'not-allowed', recognition.start()
\* is not called again by any path.
C15_DenialTerminal ==
    lastStart.on => ~denied

\* ------------------------------------------------------------- liveness
\* One exchange on a desktop browser with a working synthesizer, with
\* external playback and every periodic check.  Timers, intervals and
\* platform events that are due do happen, and playback ends.
InitLive ==
    InitListening /\ envClass = "normal" /\ synthAvailable /\ ~useFallbackAudio

NextLive ==
    \/ Tick \/ FireRestart \/ RecOnStart \/ RecOnEnd \/ RecOnResult \/ FireSilence
    \/ RequestSettled \/ FireStartSpeech \/ FireEmergency \/ FireLaunch \/ FirePermDone
    \/ UtterStart \/ UtterEnd \/ UtterError \/ UtterInterrupted
    \/ SpeechMonitor \/ HealthCheck \/ SystemRecovery
    \/ ExternalAudioStart \/ ExternalAudioStop

FairLive ==
    /\ WF_vars(Tick) /\ WF_vars(FireRestart) /\ WF_vars(FireSilence)
    /\ WF_vars(FireStartSpeech) /\ WF_vars(FireEmergency) /\ WF_vars(FireLaunch)
    /\ WF_vars(FirePermDone)
    /\ WF_vars(RecOnStart) /\ WF_vars(RecOnEnd) /\ WF_vars(RequestSettled)
    /\ WF_vars(UtterStart) /\ WF_vars(UtterEnd) /\ WF_vars(UtterInterrupted)
    /\ WF_vars(SpeechMonitor) /\ WF_vars(HealthCheck) /\ WF_vars(SystemRecovery)
    /\ WF_vars(ExternalAudioStop)

SpecLive == InitLive /\ [][NextLive]_vars /\ FairLive

\* C16: after an accepted utterance capture eventually becomes Active again
\* with the coordinator neither Processing nor Speaking.
C16_NoPermanentSilence ==
    isProcessing ~> (isListening /\ ~isProcessing /\ ~isSpeaking)

\* C17: when the platform offers no recognition API, recognition.start() is
\* never called, isListening is never true, and the health check and the
\* recovery check schedule no restart.
C17_CapabilityAbsence ==
    ~hasRecognition =>
        /\ ~lastStart.on /\ ~isListening /\ ~isStartingRef /\ recState = "idle"
        /\ Pending("healthRestart") = {} /\ Pending("recoveryRestart") = {}

\* without a recognition API an announcement has completed and the restart
\* callback it scheduled has run
C17_Witness ==
    /\ ~hasRecognition /\ done # {} /\ ~isSpeaking
    /\ timers = {} /\ quiet >= HealthPeriod

\* ------------------------------------------------------- text functions
\* Strings are sequences of characters: Len, SubSeq and \o apply to them.
Letters == "abcdefghijklmnopqrstuvwxyz"
Capitals == "ABCDEFGHIJKLMNOPQRSTUVWXYZ"
Digits == "0123456789"

\* the character at position i, "" outside the string
Ch(s, i) == IF i >= 1 /\ i <= Len(s) THEN SubSeq(s, i, i) ELSE ""

IsIn(c, str) == \E k \in 1..Len(str) : SubSeq(str, k, k) = c
IsDigit(c) == IsIn(c, Digits)
IsSpace(c) == c = " "
\* \w of a regular expression
IsWordChar(c) == IsIn(c, Letters) \/ IsIn(c, Capitals) \/ IsIn(c, Digits) \/ c = "_"
\* \b between positions i - 1 and i
Bnd(s, i) == IsWordChar(Ch(s, i - 1)) # IsWordChar(Ch(s, i))

\* the literal lit occurs in s at position i
LitAt(s, i, lit) ==
    /\ i >= 1 /\ i + Len(lit) - 1 <= Len(s)
    /\ SubSeq(s, i, i + Len(lit) - 1) = lit

\* \s* from position i: the position of the first character that is no space
RECURSIVE SkipSpaces(_, _)
SkipSpaces(s, i) == IF IsSpace(Ch(s, i)) THEN SkipSpaces(s, i + 1) ELSE i

LowerChar(c) ==
    IF IsIn(c, Capitals)
    THEN Ch(Letters, CHOOSE k \in 1..Len(Capitals) : Ch(Capitals, k) = c)
    ELSE c

\* String.prototype.toLowerCase
RECURSIVE LowerFrom(_, _)
LowerFrom(s, i) ==
    IF i > Len(s) THEN "" ELSE LowerChar(Ch(s, i)) \o LowerFrom(s, i + 1)
toLowerCase(s) == LowerFrom(s, 1)

\* .replace(/[^a-z0-9\s]/g, ' ')
RECURSIVE BlankFrom(_, _)
BlankFrom(s, i) ==
    IF i > Len(s) THEN ""
    ELSE (IF IsIn(Ch(s, i), Letters) \/ IsDigit(Ch(s, i)) \/ IsSpace(Ch(s, i))
          THEN Ch(s, i) ELSE " ") \o BlankFrom(s, i + 1)

\* .replace(/\s+/g, ' ')
RECURSIVE CollapseFrom(_, _)
CollapseFrom(s, i) ==
    IF i > Len(s) THEN ""
    ELSE IF IsSpace(Ch(s, i)) /\ IsSpace(Ch(s, i - 1)) THEN CollapseFrom(s, i + 1)
    ELSE Ch(s, i) \o CollapseFrom(s, i + 1)

\* String.prototype.trim
RECURSIVE trim(_)
trim(s) ==
    IF IsSpace(Ch(s, 1)) THEN trim(SubSeq(s, 2, Len(s)))
    ELSE IF IsSpace(Ch(s, Len(s))) THEN trim(SubSeq(s, 1, Len(s) - 1))
    ELSE s

\* page.tsx:1887-1889
cleanText(raw) == trim(CollapseFrom(BlankFrom(toLowerCase(raw), 1), 1))

\* A pattern /\bL1\s*L2\s*...Ln\b/ is the sequence of its literals.
\* PartsEnd is the position after a match that begins at i, 0 if there is none.
RECURSIVE PartsEnd(_, _, _)
PartsEnd(s, i, parts) ==
    IF ~LitAt(s, i, Head(parts)) THEN 0
    ELSE IF Len(parts) = 1 THEN i + Len(Head(parts))
    ELSE PartsEnd(s, SkipSpaces(s, i + Len(Head(parts))), Tail(parts))

\* rx.test(s) for such a pattern
Test(s, parts) ==
    \E i \in 1..Len(s) :
        /\ Bnd(s, i)
        /\ PartsEnd(s, i, parts) > 0
        /\ Bnd(s, PartsEnd(s, i, parts))

\* patterns.some(rx => rx.test(s))
Some(patterns, s) == \E parts \in patterns : Test(s, parts)

\* page.tsx:1897-1900
ticTacPatterns ==
    { <<"tic", "tac", "toe">>, <<"tictactoe">>, <<"xo">>,
      <<"noughts", "and", "crosses">>, <<"x", "and", "o">>, <<"x", "o">>,
      <<"tic", "tac">> }

\* page.tsx:1904-1907
triviaPatterns ==
    { <<"trivia">>, <<"quiz">>, <<"question", "game">>, <<"questions">>,
      <<"trivial", "pursuit">>, <<"brain", "teaser">>, <<"knowledge", "test">> }

\* page.tsx:1911-1914
sudokuPatterns ==
    { <<"sudoku">>, <<"number", "puzzle">>, <<"number", "game">>,
      <<"9", "by", "9">>, <<"numbers", "grid">>, <<"puzzle", "grid">>,
      <<"suduko">>, <<"sodoku">> }

\* page.tsx:1918-1920; colou?r is either spelling, (?:detection\s*)? is
\* present or absent
colorPatterns ==
    UNION { { <<c, "game">>, <<c, "detection", "game">>, <<c, "hunt">>,
              <<c, "finder">>, <<"find", c>>, <<c, "match">>,
              <<c, "challenge">>, <<c, "scanner">>, <<"detect", c>>,
              <<"the", c, "game">>, <<"play", c, "game">>, <<c, "play">> }
            : c \in {"color", "colour"} }
    \cup { <<"camera", "game">> }

\* page.tsx:1924-1928
audioPatterns ==
    { <<"audio", "player">>, <<"audio", "game">>, <<"play", "audio">>,
      <<"play", "music">>, <<"play", "sound">>, <<"audio", "recorder">>,
      <<"listen", "to">>, <<"sound", "game">>, <<"voice", "recorder">>,
      <<"play", "voice">>, <<"play", "recording">> }

\* page.tsx:1932-1936
jitsiPatterns ==
    { <<"jitsi">>, <<"jitsi", "meet">>, <<"video", "conference">>,
      <<"video", "chat">>, <<"meeting">>, <<"video", "call">>,
      <<"conference", "call">>, <<"team", "meeting">>, <<"zoom">>, <<"meet">>,
      <<"video", "meeting">>, <<"start", "meeting">> }

\* the games in the order the function tests them
GameOrder == << "tictactoe", "trivia", "sudoku", "color", "audio", "jitsi" >>

PatternsOf(game) ==
    CASE game = "tictactoe" -> ticTacPatterns
      [] game = "trivia" -> triviaPatterns
      [] game = "sudoku" -> sudokuPatterns
      [] game = "color" -> colorPatterns
      [] game = "audio" -> audioPatterns
      [] game = "jitsi" -> jitsiPatterns

\* a run of "if (xPatterns.some(rx => rx.test(s))) return 'x'", "null" when
\* none returns
FirstGame(s) ==
    IF \E k \in 1..Len(GameOrder) : Some(PatternsOf(GameOrder[k]), s)
    THEN GameOrder[CHOOSE k \in 1..Len(GameOrder) :
                       /\ Some(PatternsOf(GameOrder[k]), s)
                       /\ \A j \in 1..(k - 1) : ~Some(PatternsOf(GameOrder[j]), s)]
    ELSE "null"

\* page.tsx:1894.  The first alternative has no leading \b and its prefix
\* group and \s* may match nothing: it matches wherever one of the four verbs
\* is followed by \b.  The other two alternatives end in play|start followed
\* by \b, so the first matches whenever they do.
hasPlayVerb(cleaned) ==
    \E i \in 1..Len(cleaned), v \in {"play", "start", "launch", "open"} :
        LitAt(cleaned, i, v) /\ Bnd(cleaned, i + Len(v))

\* page.tsx:1941: the positions where
\* /(?:play|open|start|launch|begin)\s+([a-z0-9\s]+)/ matches
AfterPlayAt(cleaned) ==
    { i \in 1..Len(cleaned) :
        \E v \in {"play", "open", "start", "launch", "begin"} :
            /\ LitAt(cleaned, i, v)
            /\ IsSpace(Ch(cleaned, i + Len(v)))
            /\ SkipSpaces(cleaned, i + Len(v)) <= Len(cleaned) }

\* the run of [a-z0-9\s] from position i
RECURSIVE RunEnd(_, _)
RunEnd(s, i) ==
    IF IsIn(Ch(s, i), Letters) \/ IsDigit(Ch(s, i)) \/ IsSpace(Ch(s, i))
    THEN RunEnd(s, i + 1) ELSE i

\* page.tsx:1941-1942: group 1 of the leftmost match, trimmed; "" without one
candidate(cleaned) ==
    IF AfterPlayAt(cleaned) = {} THEN ""
    ELSE LET i == CHOOSE x \in AfterPlayAt(cleaned) :
                      \A y \in AfterPlayAt(cleaned) : x <= y
             v == CHOOSE w \in {"play", "open", "start", "launch", "begin"} :
                      LitAt(cleaned, i, w)
             from == SkipSpaces(cleaned, i + Len(v))
         IN trim(SubSeq(cleaned, from, RunEnd(cleaned, from) - 1))

detectGameRequiresVerb(raw) ==
    LET cleaned == cleanText(raw)
    IN IF hasPlayVerb(cleaned) /\ candidate(cleaned) # ""
          /\ FirstGame(candidate(cleaned)) # "null"
       THEN FirstGame(candidate(cleaned))
       ELSE IF Test(cleaned, <<"game">>) THEN FirstGame(cleaned)
       ELSE "null"

\* page.tsx:1886-1964
detectGameFromText(raw) ==
    LET cleaned == cleanText(raw)
    IN IF FirstGame(cleaned) # "null" THEN FirstGame(cleaned)
       ELSE IF hasPlayVerb(cleaned) /\ candidate(cleaned) # ""
               /\ FirstGame(candidate(cleaned)) # "null"
       THEN FirstGame(candidate(cleaned))
       ELSE IF Test(cleaned, <<"game">>) THEN FirstGame(cleaned)
       ELSE "null"

\* ------------------------------------------------------- time extraction
\* parseInt of the n digits at position i
RECURSIVE Num(_, _, _)
Num(s, i, n) ==
    IF n = 0 THEN 0
    ELSE Num(s, i, n - 1) * 10
         + (CHOOSE d \in 0..9 : Ch(Digits, d + 1) = Ch(s, i + n - 1))

\* the number of digits in a row from position i
RECURSIVE DigitRun(_, _)
DigitRun(s, i) == IF IsDigit(Ch(s, i)) THEN 1 + DigitRun(s, i + 1) ELSE 0

\* Math.max(0, Math.min(hi, x))
Clamp(x, hi) == IF x > hi THEN hi ELSE x

\* x.toString().padStart(2, '0') for 0 <= x <= 99
Pad2(x) == Ch(Digits, (x \div 10) + 1) \o Ch(Digits, (x % 10) + 1)

HHMM(h, m) == Pad2(h) \o ":" \o Pad2(m)

\* (a\.?\s*m\.?|p\.?\s*m\.?|am|pm) from position j: the position after the
\* "m", 0 without a match; ci is the i flag
SuffixM(s, j, ci) ==
    LET x == IF ci THEN LowerChar(Ch(s, j)) ELSE Ch(s, j)
        k == SkipSpaces(s, IF Ch(s, j + 1) = "." THEN j + 2 ELSE j + 1)
        y == IF ci THEN LowerChar(Ch(s, k)) ELSE Ch(s, k)
    IN IF x \in {"a", "p"} /\ y = "m" THEN k + 1 ELSE 0

\* the positions at which a match of the suffix from j can end: the last
\* \.? takes the dot or leaves it
SuffixEnds(s, j, ci) ==
    LET e == SuffixM(s, j, ci)
    IN IF e = 0 THEN {}
       ELSE {e} \cup (IF Ch(s, e) = "." THEN {e + 1} ELSE {})

\* /p/i.test(suffix)
isPM(s, j) == LowerChar(Ch(s, j)) = "p"

\* (?=[^a-z]|$), with the i flag or without
Ahead(s, e, ci) ==
    \/ e > Len(s)
    \/ ~IsIn(IF ci THEN LowerChar(Ch(s, e)) ELSE Ch(s, e), Letters)

\* the suffix from the first non-space at or after c, followed by \b
SuffixThenBnd(s, c) ==
    \E e \in SuffixEnds(s, SkipSpaces(s, c), FALSE) : Bnd(s, e)

\* the suffix from the first non-space at or after c, followed by the
\* lookahead; the expressions that use it carry the i flag
SuffixThenAhead(s, c) ==
    \E e \in SuffixEnds(s, SkipSpaces(s, c), TRUE) : Ahead(s, e, TRUE)

\* the leftmost position of a set of match positions
Leftmost(S) == CHOOSE i \in S : \A j \in S : i <= j

\* \bat\s+ at position i: the position after it, 0 without a match
AtEnd(s, i) ==
    IF Bnd(s, i) /\ LitAt(s, i, "at") /\ IsSpace(Ch(s, i + 2))
    THEN SkipSpaces(s, i + 2) ELSE 0

\* /\bat\s+noon\b/ and /\bat\s+midnight\b/, page.tsx:2038-2039
AtWord(s, w) ==
    \E i \in 1..Len(s) :
        /\ AtEnd(s, i) > 0
        /\ LitAt(s, AtEnd(s, i), w)
        /\ Bnd(s, AtEnd(s, i) + Len(w))

\* \b(\d{1,2}) at position i: what follows is never a digit, so the group is
\* the whole run of digits
Hour(s, i) == Bnd(s, i) /\ DigitRun(s, i) \in {1, 2}

\* :(\d{2}) at position c
Minutes(s, c) == Ch(s, c) = ":" /\ IsDigit(Ch(s, c + 1)) /\ IsDigit(Ch(s, c + 2))

\* /\b(\d{1,2}):(\d{2})\b/, page.tsx:2042
hhmm24(s) ==
    { i \in 1..Len(s) :
        /\ Hour(s, i)
        /\ Minutes(s, i + DigitRun(s, i))
        /\ Bnd(s, i + DigitRun(s, i) + 3) }

\* /\b(\d{1,2})(?::(\d{2}))?\s*(a\.?\s*m\.?|p\.?\s*m\.?|am|pm)\b/, page.tsx:2050
ampm(s) ==
    { i \in 1..Len(s) :
        /\ Hour(s, i)
        /\ LET c == i + DigitRun(s, i)
           IN SuffixThenBnd(s, IF Minutes(s, c) THEN c + 3 ELSE c) }

\* the conversion of page.tsx:2055-2058, 2109-2112 and 2124-2127
To24Guarded(h, pm) ==
    IF h <= 12
    THEN (IF h = 12 THEN (IF pm THEN 12 ELSE 0) ELSE IF pm THEN h + 12 ELSE h)
    ELSE h

\* the conversion of page.tsx:2070-2071, 2084-2086 and 2147-2148
To24(h, pm) ==
    IF h = 12 THEN (IF pm THEN 12 ELSE 0) ELSE IF pm THEN h + 12 ELSE h

\* (\d{1,2})\s+(\d{2}) from position j: the position after it, 0 without a match
SpacedEnd(s, j) ==
    LET r == DigitRun(s, j)
        k == SkipSpaces(s, j + r)
    IN IF r \in {1, 2} /\ IsSpace(Ch(s, j + r))
          /\ IsDigit(Ch(s, k)) /\ IsDigit(Ch(s, k + 1))
       THEN k + 2 ELSE 0

\* /\bat\s+(\d{1,2})\s+(\d{2})(?:\s*(suffix))?\b/, page.tsx:2064
spaced(s) ==
    { i \in 1..Len(s) :
        /\ AtEnd(s, i) > 0
        /\ SpacedEnd(s, AtEnd(s, i)) > 0
        /\ \/ SuffixThenBnd(s, SpacedEnd(s, AtEnd(s, i)))
           \/ Bnd(s, SpacedEnd(s, AtEnd(s, i))) }

\* /\b(\d{1,2})\s+(\d{2})(?:\s*(suffix))?(?=[^a-z]|$)/i, page.tsx:2078
spacedAnywhere(s) ==
    { i \in 1..Len(s) :
        /\ Bnd(s, i)
        /\ SpacedEnd(s, i) > 0
        /\ \/ SuffixThenAhead(s, SpacedEnd(s, i))
           \/ Ahead(s, SpacedEnd(s, i), TRUE) }

\* /\bat\s+(\d{3,4})\b/, page.tsx:2092
compact(s) ==
    { i \in 1..Len(s) :
        /\ AtEnd(s, i) > 0
        /\ DigitRun(s, AtEnd(s, i)) \in {3, 4}
        /\ Bnd(s, AtEnd(s, i) + DigitRun(s, AtEnd(s, i))) }

\* /\b(\d{1,2}):(\d{2})\s*(suffix)\b/, page.tsx:2103
hhmm12(s) ==
    { i \in 1..Len(s) :
        /\ Hour(s, i)
        /\ Minutes(s, i + DigitRun(s, i))
        /\ SuffixThenBnd(s, i + DigitRun(s, i) + 3) }

\* /\b(\d{3,4})\s*(suffix)(?=[^a-z]|$)/i, page.tsx:2117
compactWithSuffix(s) ==
    { i \in 1..Len(s) :
        /\ Bnd(s, i)
        /\ DigitRun(s, i) \in {3, 4}
        /\ SuffixThenAhead(s, i + DigitRun(s, i)) }

\* /\b(\d{3,4})\b(?=[^a-z]|$)/, page.tsx:2133
compactAnywhere(s) ==
    { i \in 1..Len(s) :
        /\ Bnd(s, i)
        /\ DigitRun(s, i) \in {3, 4}
        /\ Bnd(s, i + DigitRun(s, i))
        /\ Ahead(s, i + DigitRun(s, i), FALSE) }

\* /\b(\d{1,2})\s*(suffix)\b/, page.tsx:2145
hourWithSuffix(s) ==
    { i \in 1..Len(s) :
        Hour(s, i) /\ SuffixThenBnd(s, i + DigitRun(s, i)) }

\* /\bat\s+(\d{1,2})\b(?!\s*[:\d])/, page.tsx:2154
atH(s) ==
    { i \in 1..Len(s) :
        /\ AtEnd(s, i) > 0
        /\ DigitRun(s, AtEnd(s, i)) \in {1, 2}
        /\ LET e == AtEnd(s, i) + DigitRun(s, AtEnd(s, i))
           IN /\ Bnd(s, e)
              /\ Ch(s, e) # ":"
              /\ Ch(s, SkipSpaces(s, e)) # ":"
              /\ ~IsDigit(Ch(s, SkipSpaces(s, e))) }

\* the result of a branch that matched H, optional :MM and a suffix at i
FromAmPm(s, i) ==
    LET r == DigitRun(s, i)
        c == i + r
        c2 == IF Minutes(s, c) THEN c + 3 ELSE c
        m == IF Minutes(s, c) THEN Num(s, c + 1, 2) ELSE 0
    IN HHMM(To24Guarded(Num(s, i, r), isPM(s, SkipSpaces(s, c2))), m)

\* the result of a branch that matched H MM and an optional suffix from j;
\* ahead tells which test follows the suffix
FromSpaced(s, j, ahead) ==
    LET r == DigitRun(s, j)
        e == SpacedEnd(s, j)
        h == Num(s, j, r)
        m == Num(s, e - 2, 2)
        suffix == IF ahead THEN SuffixThenAhead(s, e) ELSE SuffixThenBnd(s, e)
        h2 == IF suffix THEN To24(h, isPM(s, SkipSpaces(s, e))) ELSE h
    IN HHMM(Clamp(h2, 23), Clamp(m, 59))

\* page.tsx:2036-2161, the branches after the 24h HH:MM one
extractTimeAfterColon(s) ==
    IF ampm(s) # {} THEN FromAmPm(s, Leftmost(ampm(s)))
    ELSE IF spaced(s) # {}
    THEN FromSpaced(s, AtEnd(s, Leftmost(spaced(s))), FALSE)
    ELSE IF spacedAnywhere(s) # {}
    THEN FromSpaced(s, Leftmost(spacedAnywhere(s)), TRUE)
    ELSE IF compact(s) # {}
    THEN LET j == AtEnd(s, Leftmost(compact(s)))
             num == Num(s, j, DigitRun(s, j))
         IN HHMM(Clamp(num \div 100, 23), Clamp(num % 100, 59))
    ELSE IF hhmm12(s) # {} THEN FromAmPm(s, Leftmost(hhmm12(s)))
    ELSE IF compactWithSuffix(s) # {}
    THEN LET i == Leftmost(compactWithSuffix(s))
             r == DigitRun(s, i)
             num == Num(s, i, r)
             h == To24Guarded(num \div 100, isPM(s, SkipSpaces(s, i + r)))
         IN HHMM(Clamp(h, 23), Clamp(num % 100, 59))
    ELSE IF /\ compactAnywhere(s) # {}
            /\ LET i == Leftmost(compactAnywhere(s))
                   num == Num(s, i, DigitRun(s, i))
               IN num \div 100 <= 23 /\ num % 100 <= 59
    THEN LET i == Leftmost(compactAnywhere(s))
             num == Num(s, i, DigitRun(s, i))
         IN HHMM(num \div 100, num % 100)
    ELSE IF hourWithSuffix(s) # {}
    THEN LET i == Leftmost(hourWithSuffix(s))
             r == DigitRun(s, i)
         IN HHMM(Clamp(To24(Num(s, i, r), isPM(s, SkipSpaces(s, i + r))), 23), 0)
    ELSE IF atH(s) # {}
    THEN LET j == AtEnd(s, Leftmost(atH(s)))
         IN HHMM(Clamp(Num(s, j, DigitRun(s, j)), 23), 0)
    ELSE "null"

\* page.tsx:2036-2161
extractTimeFromText(s) ==
    IF AtWord(s, "noon") THEN "12:00"
    ELSE IF AtWord(s, "midnight") THEN "00:00"
    ELSE IF hhmm24(s) # {}
    THEN LET i == Leftmost(hhmm24(s))
             r == DigitRun(s, i)
         IN HHMM(Clamp(Num(s, i, r), 23), Clamp(Num(s, i + r + 1, 2), 59))
    ELSE extractTimeAfterColon(s)

\* the variables of the controller
homeVars ==
    << isProcessing, isSpeaking, isListening, isAudioPlaying,
       useFallbackAudio, hasUserInteracted, fallbackAudioContext,
       pendingGameLaunch, shouldListenRef, isStartingRef, isStoppingRef,
       sinceRestart, monitorEnv, healthAud, recoveryAud, quiet, timers,
       hasRecognition, synthAvailable, envClass, recState, synthQueue,
       synthCancelled, synthPaused, ctxState, ctxCount, inflight, utterCount,
       speakCalls, audioCount, recErrCount, reminderCount, lastStart,
       sinceStart, done, launches, doneAgain, launchAgain, spkAge,
       synthEvent, ctxBeforeGesture, ungatedAudio, gateRefused, suspendObs,
       sentWhileBusy, backendFailed, denied, obs, restartAge, tone, heard,
       show >>

\* pieces the sample texts are put together from
Leads ==
    { "", "let's play ", "play ", "Play ", "start a ", "can we open ", "display " }
GameBodies ==
    { "tic tac toe", "Tic-Tac-Toe", "tictactoe", "x and o", "trivia", "quiz",
      "question game", "sudoku game", "number puzzle", "colour game",
      "Color Hunt", "audio player", "music", "jitsi meet", "video call",
      "trivia and sudoku", "sudoku or tic tac toe", "zoom quiz",
      "the weather", "chess", "game", "trivial things", "taxo" }
Tails == { "", " please", "!", "?" }
GameTexts ==
    { l \o b \o e : l \in Leads, b \in GameBodies, e \in Tails }
        \cup { "what's the weather" }

\* texts with a clock time, as detectReminderFromText passes them (lower case)
TimeLeads == { "", "remind me to call mom " }
Times ==
    { "at 18:30", "at 6:30 pm", "at 6 pm", "at 6:30pm", "at 6pm", "at 6 p.m.",
      "at 12 am", "at 12:15 am", "at 12 pm", "at noon", "at midnight",
      "at 25:99", "at 7:5", "at 6 53", "at 6 53 pm", "18 53", "6 530",
      "at 1853", "at 853", "at 2575", "1853 p.m.", "0630", "9999",
      "at 99 pm", "at 6", "at 6 :30", "at 123456", "at six", "later" }
TimeTails == { "", " please", "." }
TimeTexts == { l \o x \o e : l \in TimeLeads, x \in Times, e \in TimeTails }

Texts == GameTexts \cup TimeTexts

InitText ==
    /\ AtRest /\ envClass = "normal" /\ synthAvailable /\ ~useFallbackAudio
    /\ text \in Texts /\ detected = "pending" /\ extracted = "pending"
    /\ NoFallback /\ Untimed /\ Unheard

\* const detected = detectGameFromText(text), page.tsx:2241
DetectGame ==
    /\ detected = "pending"
    /\ detected' = detectGameFromText(text)
    /\ UNCHANGED << homeVars, text, extracted, fallback >>

\* const time = extractTimeFromText(text), page.tsx:1975
ExtractTime ==
    /\ extracted = "pending"
    /\ extracted' = extractTimeFromText(text)
    /\ UNCHANGED << homeVars, text, detected, fallback >>

NextText == DetectGame \/ ExtractTime

SpecText == InitText /\ [][NextText]_vars

\* C18: the result is the first game, in the fixed order, one of whose
\* synonym phrases occurs in the text, and null when no game's phrase occurs;
\* the four sample texts give tictactoe, trivia, sudoku and null.
C18_GameDetection ==
    detected \notin {"none", "pending"} =>
        /\ detected = FirstGame(cleanText(text))
        /\ text = "let's play tic tac toe" => detected = "tictactoe"
        /\ text = "play trivia" => detected = "trivia"
        /\ text = "start a sudoku game" => detected = "sudoku"
        /\ text = "what's the weather" => detected = "null"

\* a text that names two games and has no lead-in: the earlier game is returned
C18_Witness ==
    /\ detected = "tictactoe"
    /\ Some(sudokuPatterns, cleanText(text))
    /\ ~hasPlayVerb(cleanText(text))

\* C19: a 24h HH:MM is returned as it is, an H:MM with am/pm and a bare hour
\* with am/pm are converted to 24-hour time ("at 18:30" gives "18:30",
\* "at 6:30 pm" gives "18:30", "at 6 pm" gives "18:00"), and a text with no
\* time or a malformed one gives null.
C19_TimeExtraction ==
    extracted \notin {"none", "pending"} =>
        /\ text = "at 18:30" => extracted = "18:30"
        /\ text = "at 6:30 pm" => extracted = "18:30"
        /\ text = "at 6 pm" => extracted = "18:00"
        /\ text \in {"later", "at six", "at 7:5", "the weather"} => extracted = "null"

\* ------------------------------------------------------ the tone fallback
\* The text of the "Test Fallback" button (page.tsx:3097), and the delays of
\* the retry (line 1044) and of the clearing of the display (line 1030) in
\* ticks.  The delays of 200 and 500 ms of lines 1056 and 1060 are shorter
\* than a tick.
FallbackText == "This is a test of the fallback audio system."
RetryTicks == 1
ClearTicks == 4

\* What the platform does during one invocation: the state a resumed or new
\* context is left in, whether a context can be constructed (lines 919-921),
\* whether the oscillator of the enhanced tone starts (1086-1106) and
\* whether the oscillator of the simple beep starts (1140-1157).
Outcomes ==
    [born : Born, created : BOOLEAN, toneOk : BOOLEAN, beepOk : BOOLEAN]

\* the stages an invocation may have gone through when it has ended
Chains ==
    { <<"text">>, <<"tone">>, <<"tone", "beep">>, <<"tone", "beep", "text">> }

Stage(s, k, st) == [s EXCEPT !.fallback.inv[k].stages = Append(@, st)]

Ended(s, k) ==
    [s EXCEPT !.fallback.inv[k].phase = "done", !.fallback.ended = k]

\* setAiResponse(text); setTimeout(() => setAiResponse(''), 4000)
showText(s, k) ==
    [s EXCEPT !.fallback.aiResponse = FallbackText,
              !.timers = @ \cup
                  {Timer("clearText", ClearTicks, k, FALSE, MountClosure)}]

\* the text-only end of lines 1029-1031, 1041-1042, 1133-1135, 1168-1169
\* and 1175-1176
textOnly(s, k) == Ended(showText(Stage(s, k, "text"), k), k)

\* page.tsx:1128-1178 with a beep whose last resort displays nothing
playSimpleFallbackAudioSilent(s, k, c, o) ==
    IF ~c.ctx
    THEN textOnly(s, k)
    ELSE LET s1 == Stage(s, k, "beep")
         IN IF o.beepOk THEN Ended(showText(s1, k), k)
            ELSE Ended(Stage(s1, k, "text"), k)

\* page.tsx:1128-1178
playSimpleFallbackAudio(s, k, c, o) ==
    IF ~c.ctx
    THEN textOnly(s, k)
    ELSE LET s1 == Stage(s, k, "beep")
         IN IF o.beepOk THEN Ended(showText(s1, k), k)
            ELSE textOnly(s1, k)

\* page.tsx:1076-1125 with the display of the text: the enhanced tone, and
\* the simple beep when anything in it throws
playFallbackAudioInternalText(s, k, c, o) ==
    LET s1 == Stage(s, k, "tone")
    IN IF o.toneOk
       THEN Ended(showText(playFallbackAudioInternal(s1), k), k)
       ELSE playSimpleFallbackAudio(s1, k, c, o)

\* page.tsx:1020-1073 with the display of the text.  The catch of lines
\* 1068-1072 is not reached: playFallbackAudioInternal catches what it
\* throws, and the resume has a catch of its own.
RECURSIVE playFallbackAudioText(_, _, _, _)
\* the callback of lines 1035-1044; c is the closure that scheduled it
fallbackRetry(s, k, c, o) ==
    IF c.ctx THEN playFallbackAudioText(s, k, c, o) ELSE textOnly(s, k)

playFallbackAudioText(s, k, c, o) ==
    IF ~c.ctx
    THEN IF c.hui /\ o.created
         THEN [createAndResumeAudioContext(s, c, o.born) EXCEPT
                  !.fallback.inv[k].phase = "waiting",
                  !.timers = @ \cup {Timer("fbRetry", RetryTicks, k, FALSE, c)}]
         ELSE textOnly(IF c.hui THEN s
                       ELSE createAndResumeAudioContext(s, c, o.born), k)
    ELSE IF s.ctxState = "suspended"
         THEN [s EXCEPT !.ctxState = o.born,
                        !.fallback.inv[k].phase = "waiting",
                        !.timers = @ \cup {Timer("fbInternal", 0, k, FALSE, c)}]
         ELSE playFallbackAudioInternalText(s, k, c, o)

\* page.tsx:3094-3098: the click on "Test Fallback"; the document's click
\* listener (836-847) runs after the button's handler.
TestFallbackText ==
    \E k \in 1..MaxFallback, o \in Outcomes :
        /\ fallback.inv[k].phase = "idle"
        /\ \A j \in 1..(k - 1) : fallback.inv[j].phase # "idle"
        /\ Do([playFallbackAudioText(Cur, k, Closure(Cur), o)
                  EXCEPT !.hui = TRUE])

FireFallbackRetry ==
    \E t \in Due("fbRetry"), o \in Outcomes :
        Do(fallbackRetry(Without(t), t.call, t.c, o))

FireFallbackInternal ==
    \E t \in Due("fbInternal"), o \in Outcomes :
        Do(playFallbackAudioInternalText(Without(t), t.call, t.c, o))

\* () => setAiResponse('')
FireClearText ==
    \E t \in Due("clearText") :
        Do([Without(t) EXCEPT !.fallback.aiResponse = ""])

\* The page on a Linux device without speech synthesis, where replies are
\* rendered by the tone fallback.
InitFallback ==
    /\ AtRest /\ envClass = "linux" /\ ~synthAvailable
    /\ NoText /\ NoFallback /\ Untimed /\ Unheard

NextFallback ==
    \/ Tick \/ UserGesture \/ RequestSpeechPermission
    \/ TestFallbackText \/ FireFallbackRetry \/ FireFallbackInternal
    \/ FireClearText

SpecFallback == InitFallback /\ [][NextFallback]_vars

\* C20: every invocation of the tone fallback ends with the reply text on
\* the display and its clearing scheduled, whether the audio context could
\* not be created or resumed or the enhanced tone and the simple beep both
\* failed; and the stages it went through are, in this order, the enhanced
\* tone, the simple beep and the text alone.
C20_TextSurfaced ==
    /\ fallback.ended # 0 =>
          /\ fallback.aiResponse = FallbackText
          /\ fallback.inv[fallback.ended].phase = "done"
          /\ \E t \in Pending("clearText") :
                t.call = fallback.ended /\ t.rem = ClearTicks
    /\ \A k \in 1..MaxFallback :
          fallback.inv[k].phase = "done" => fallback.inv[k].stages \in Chains

\* an invocation that found an audio context has just ended after the
\* enhanced tone and the simple beep both failed
C20_Witness ==
    /\ fallback.ended # 0
    /\ fallback.inv[fallback.ended].stages = <<"tone", "beep", "text">>
    /\ fallback.aiResponse = FallbackText
    /\ fallbackAudioContext

\* ------------------------------------------------- the tiers of the output
\* C21: speechSynthesis.speak is not called for a reply while
\* useFallbackAudio is set or the environment is classified as Linux,
\* Raspberry Pi or VNC.
C21_SkipPrimary ==
    obs.spoke => ~obs.marker /\ envClass = "normal"

\* the speakResponse calls whose output is in flight: the delayed start is
\* pending (page.tsx:2394) or the utterance is in the synthesizer's queue
OutputsInFlight ==
    {t.call : t \in Pending("startSpeech")}
        \cup {synthQueue[i].call : i \in {j \in 1..Len(synthQueue) :
                                              synthQueue[j].call > 0}}

\* C22: no two speakResponse calls have their output in flight (its delayed
\* start pending, or its utterance speaking or queued) at the same time: a
\* new call cancels the output of the previous one.
C22_OneOutput ==
    Cardinality(OutputsInFlight) <= 1

\* ------------------------------------------------- the periodic checks
\* The capture session from mount on a desktop browser without speech
\* synthesis, with external playback.  Due timers and the intervals of the
\* health check and of the recovery check do run and playback ends; the
\* recognizer may deliver its events or withhold them.
InitWatch ==
    /\ Mounted /\ hasRecognition /\ ~synthAvailable /\ envClass = "normal"
    /\ NoText /\ NoFallback /\ Untimed /\ Unheard

NextWatch ==
    \/ Tick \/ FireRestart \/ FireTestSpeech
    \/ RecOnStart \/ RecOnEnd \/ RecOnError
    \/ HealthCheck \/ SystemRecovery
    \/ ExternalAudioStart \/ ExternalAudioStop

FairWatch ==
    /\ WF_vars(Tick) /\ WF_vars(FireRestart) /\ WF_vars(FireTestSpeech)
    /\ WF_vars(HealthCheck) /\ WF_vars(SystemRecovery)
    /\ WF_vars(ExternalAudioStop)

SpecWatch == InitWatch /\ [][NextWatch]_vars /\ FairWatch

\* C23: a session that is desired to listen and has its Starting or Stopping
\* marker set is eventually restarted: the markers are reset or
\* recognition.start() is called, also when the recognizer delivers no event.
C23_StuckSessionRestarted ==
    (shouldListenRef /\ (isStartingRef \/ isStoppingRef))
        ~> (lastStart.on \/ (~isStartingRef /\ ~isStoppingRef))

\* The controller at rest on a desktop browser with a working synthesizer,
\* its session started more than 30 s ago: announcements of due reminders,
\* external playback, the recognizer and every periodic check.  Due timers,
\* intervals and platform events do happen, and playback ends.
InitDown ==
    /\ AtRest /\ envClass = "normal" /\ synthAvailable /\ ~useFallbackAudio
    /\ NoText /\ NoFallback /\ restartAge = RecoveryAge /\ Unheard

NextDown ==
    \/ Tick \/ FireRestart \/ RecOnStart \/ RecOnEnd
    \/ ReminderDue \/ FireStartSpeech
    \/ UtterStart \/ UtterEnd \/ UtterInterrupted
    \/ SpeechMonitor \/ HealthCheck \/ SystemRecovery
    \/ ExternalAudioStart \/ ExternalAudioStop

FairDown ==
    /\ WF_vars(Tick) /\ WF_vars(FireRestart) /\ WF_vars(FireStartSpeech)
    /\ WF_vars(RecOnStart) /\ WF_vars(RecOnEnd)
    /\ WF_vars(UtterStart) /\ WF_vars(UtterEnd) /\ WF_vars(UtterInterrupted)
    /\ WF_vars(SpeechMonitor) /\ WF_vars(HealthCheck) /\ WF_vars(SystemRecovery)
    /\ WF_vars(ExternalAudioStop)

SpecDown == InitDown /\ [][NextDown]_vars /\ FairDown

\* listening is desired, the session is not started, no start or stop is in
\* flight and capture is not suspended
Down ==
    /\ shouldListenRef /\ ~isListening /\ recState = "idle"
    /\ ~isStartingRef /\ ~isStoppingRef
    /\ ~isAudioPlaying /\ ~isSpeaking /\ ~isProcessing

\* C24: a session that is down (listening desired, not started, no start or
\* stop in flight, capture not suspended) does not stay down: while it stays
\* in that condition recognition.start() is eventually called.  Stated for
\* the time up to the first restart, where the age of the last attempt is
\* counted exactly.
C24_HealthCheckRestarts ==
    Down ~> (lastStart.on \/ ~Down \/ Untimed)

\* ------------------------------------------------- the timers of an output
\* C25: the watchdog and the delayed launch armed by one speakResponse call
\* never act (clear the Speaking flag, launch a game, restart capture) while
\* the output of a later call is being spoken.
C25_NoLateTimer ==
    ~obs.late

\* ------------------------------------------------- the end of Processing
\* The exchange of SpecLive with the two awaited calls told apart.  The
\* fetch of page.tsx:2248-2255 settles: it is aborted after 15 s.  The
\* addDoc awaited by createReminder (part_001:69-87, page.tsx:2226) has no
\* timeout, so nothing makes it settle.
FetchSettled ==
    \E r \in {x \in inflight : x.kind = "chat"}, ok \in BOOLEAN :
        /\ speakCalls < MaxSpeak
        /\ Do(handleSendToGeminiSettled(Cur, MountClosure, r, ok))

StoreSettled ==
    \E r \in {x \in inflight : x.kind = "reminder"}, ok \in BOOLEAN :
        /\ speakCalls < MaxSpeak
        /\ Do(handleSendToGeminiSettled(Cur, MountClosure, r, ok))

NextProc ==
    \/ Tick \/ FireRestart \/ RecOnStart \/ RecOnEnd \/ RecOnResult \/ FireSilence
    \/ FetchSettled \/ StoreSettled
    \/ FireStartSpeech \/ FireEmergency \/ FireLaunch \/ FirePermDone
    \/ UtterStart \/ UtterEnd \/ UtterError \/ UtterInterrupted
    \/ SpeechMonitor \/ HealthCheck \/ SystemRecovery
    \/ ExternalAudioStart \/ ExternalAudioStop

FairProc ==
    /\ WF_vars(Tick) /\ WF_vars(FireRestart) /\ WF_vars(FireSilence)
    /\ WF_vars(FireStartSpeech) /\ WF_vars(FireEmergency) /\ WF_vars(FireLaunch)
    /\ WF_vars(FirePermDone)
    /\ WF_vars(RecOnStart) /\ WF_vars(RecOnEnd) /\ WF_vars(FetchSettled)
    /\ WF_vars(UtterStart) /\ WF_vars(UtterEnd) /\ WF_vars(UtterInterrupted)
    /\ WF_vars(SpeechMonitor) /\ WF_vars(HealthCheck) /\ WF_vars(SystemRecovery)
    /\ WF_vars(ExternalAudioStop)

SpecProc == InitLive /\ [][NextProc]_vars /\ FairProc

\* C26: Processing always ends: whenever the Processing flag is set it is
\* eventually cleared, whether the awaited call answers, fails, times out or
\* never answers.
C26_ProcessingEnds ==
    isProcessing ~> ~isProcessing

\* ------------------------------------------------- the marker of the tier
\* C27: once useFallbackAudio is set it is never cleared.
C27_StickyMarker ==
    [][useFallbackAudio => useFallbackAudio']_vars

\* C28: the error event 'interrupted' / 'canceled' of an utterance does not
\* mark primary synthesis as broken: it never sets useFallbackAudio.
C28_InterruptedClean ==
    ~obs.demoted

\* ------------------------------------------------- the timing of the tone
\* One reply of 1..MaxWords words rendered by the tone tier on a Linux
\* device, with time counted in steps of ToneStep ms.  The reply is spoken
\* from a render that holds a running audio context (the one handleGameEnd
\* is called in, page.tsx:1853), so that the tone does play.
MaxWords == 8
ToneStep == 100
WordsPerMinute == 150
ToneFloor == 1500
CompletionDelay == 2000
MsPerWord == 400

Max(a, b) == IF a > b THEN a ELSE b

\* page.tsx:1079-1081: Math.max(1.5, (wordCount / wordsPerMinute) * 60), in ms
speechDuration(wordCount) ==
    Max(ToneFloor, (wordCount * 60000) \div WordsPerMinute)

\* startSpeech, page.tsx:2518-2539, on the branch of line 2518, reaching
\* playFallbackAudioInternal (1076-1112): the oscillator is started for
\* speechDuration and the launch and the restart are set to run after
\* CompletionDelay.
SpeakTone ==
    \E w \in 1..MaxWords :
        /\ tone.phase = "idle"
        /\ envClass = "linux" /\ fallbackAudioContext /\ ctxState = "running"
        /\ Set([Cur EXCEPT !.tone = [NoTone EXCEPT !.phase = "playing",
                                                   !.words = w,
                                                   !.duration = speechDuration(w)]])

\* ToneStep ms pass; a callback that is due runs first
ToneTime ==
    /\ tone.phase = "playing"
    /\ tone.elapsed < Max(tone.duration, CompletionDelay)
    /\ tone.completed \/ tone.elapsed < CompletionDelay
    /\ Set([Cur EXCEPT !.tone.elapsed = @ + ToneStep])

\* the callbacks of page.tsx:2523-2528 and 2531-2537: the launch of the
\* pending game and the restart of the recognition
ToneComplete ==
    /\ tone.phase = "playing" /\ ~tone.completed
    /\ tone.elapsed = CompletionDelay
    /\ Set([Cur EXCEPT !.tone.completed = TRUE, !.tone.at = tone.elapsed])

InitTone ==
    /\ AtRest /\ envClass = "linux" /\ synthAvailable
    /\ NoText /\ NoFallback /\ Untimed /\ Unheard

NextTone ==
    \/ UserGesture \/ RequestSpeechPermission
    \/ SpeakTone \/ ToneTime \/ ToneComplete

SpecTone == InitTone /\ [][NextTone]_vars

\* C29: the tone lasts max(1.5 s, 0.4 s per word), and the completion of the
\* output (launch of the pending game, restart of the recognition) is not
\* delivered before the tone has lasted that long.
C29_ToneTiming ==
    /\ tone.phase = "playing" =>
          tone.duration = Max(ToneFloor, tone.words * MsPerWord)
    /\ tone.completed => tone.at >= tone.duration

\* ------------------------------------------------- the debounce of results
\* One utterance may be passed on twice in this specification.
MaxEmit == 2

\* recognition.onresult for a further result of the utterance whose interim
\* text the silence callback has passed on: a revised interim text or the
\* finalized one, of the same class of text.  The recognizer delivers
\* results until it has ended, also after stop() (page.tsx:1541).
RecOnResultAgain ==
    /\ recState \in {"running", "stopping"}
    /\ isListening
    /\ heard.phase = "interim" /\ heard.sent = 1
    /\ utterCount < MaxEmit
    /\ \E final \in BOOLEAN :
         Do(recognitionOnResult(Cur, MountClosure, final, heard.intent))

\* Capture of one utterance on a desktop browser, up to the answer of the
\* backend.
InitDebounce ==
    /\ AtRest /\ envClass = "normal" /\ synthAvailable /\ ~useFallbackAudio
    /\ NoText /\ NoFallback /\ Untimed /\ heard = NoHeard

NextDebounce ==
    \/ Tick \/ FireRestart \/ RecOnStart \/ RecOnEnd
    \/ RecOnResult \/ RecOnResultAgain \/ FireSilence

SpecDebounce == InitDebounce /\ [][NextDebounce]_vars

\* C30: at most one silence timer is pending, and one utterance is passed on
\* to handleSendToGemini at most once.
C30_EmittedOnce ==
    /\ Cardinality({t \in timers : t.kind = "silence"}) <= 1
    /\ heard.sent <= 1

\* ------------------------------------------------- a start that is rejected
\* a restart callback whose recognition.start() throws
FireRestartRejected ==
    \E t \in {x \in timers : x.kind \in RestartKinds /\ x.rem = 0},
       err \in StartErrors :
        /\ canStartRecognition(Without(t), t.c)
        /\ Do(startRecognitionRejected(Without(t), t.c, err))

\* The capture session of SpecWatch with a platform that may reject a start.
NextStart ==
    \/ Tick \/ FireRestart \/ FireRestartRejected \/ FireTestSpeech
    \/ RecOnStart \/ RecOnEnd \/ RecOnError
    \/ HealthCheck \/ SystemRecovery
    \/ ExternalAudioStart \/ ExternalAudioStop

SpecStart == InitWatch /\ [][NextStart]_vars

\* the delay of the retry after each error
RetryDelay(err) ==
    CASE err = "InvalidStateError" -> InvalidStateRetry
      [] err = "NotAllowedError" -> 0
      [] OTHER -> OtherErrorRetry

\* C31: when recognition.start() throws, the Starting marker is clear and
\* the session is not Active when startRecognition returns, and one retry
\* is scheduled with the delay of that error, none after NotAllowedError.
C31_StartRejection ==
    obs.threw # "none" =>
        /\ ~isStartingRef /\ ~isListening
        /\ obs.retry = RetryDelay(obs.threw)
        /\ obs.retry > 0 => \E t \in Pending("restart") : t.rem = obs.retry

\* start() has just thrown an error other than the two named ones and the
\* retry is pending
C31_Witness ==
    /\ obs.threw = "other" /\ ~isStartingRef
    /\ \E t \in Pending("restart") : t.rem = OtherErrorRetry

\* ------------------------------------------------- the contract of stop
\* C32: stopRecognition does nothing unless the session is Active and not
\* Stopping; otherwise it sets the Stopping marker and has the platform
\* stop the recognizer; and recognition.onend leaves the session not
\* Active with the Starting and Stopping markers cleared.
C32_StopContract ==
    /\ obs.stop = "done" =>
          /\ obs.wasActive /\ ~obs.wasStopping
          /\ isStoppingRef /\ recState = "stopping"
    /\ obs.stop = "noop" => ~obs.wasActive \/ obs.wasStopping
    /\ obs.ended => ~isListening /\ ~isStartingRef /\ ~isStoppingRef

\* stopRecognition has just stopped an Active session
C32_Witness ==
    /\ obs.stop = "done" /\ obs.wasActive
    /\ isStoppingRef /\ isListening /\ recState = "stopping"

\* ------------------------------------------------- the speech monitor
\* The exchange of SpecLive without external playback: capture is never
\* suspended, so nothing but the synthesizer's events, the watchdog and the
\* monitor can end Speaking.
NextMonitor ==
    \/ Tick \/ FireRestart \/ RecOnStart \/ RecOnEnd \/ RecOnResult \/ FireSilence
    \/ RequestSettled \/ FireStartSpeech \/ FireEmergency \/ FireLaunch \/ FirePermDone
    \/ UtterStart \/ UtterEnd \/ UtterError
    \/ SpeechMonitor \/ HealthCheck \/ SystemRecovery

FairMonitor ==
    /\ WF_vars(Tick) /\ WF_vars(FireRestart) /\ WF_vars(FireSilence)
    /\ WF_vars(FireStartSpeech) /\ WF_vars(FireEmergency) /\ WF_vars(FireLaunch)
    /\ WF_vars(FirePermDone)
    /\ WF_vars(RecOnStart) /\ WF_vars(RecOnEnd) /\ WF_vars(RequestSettled)
    /\ WF_vars(UtterStart) /\ WF_vars(UtterEnd)
    /\ WF_vars(SpeechMonitor) /\ WF_vars(HealthCheck) /\ WF_vars(SystemRecovery)

SpecMonitor == InitLive /\ [][NextMonitor]_vars /\ FairMonitor

\* Speaking is set, the synthesizer has nothing speaking or pending and no
\* call of startSpeech is about to hand it an utterance
StuckSpeaking ==
    /\ isSpeaking /\ synthAvailable
    /\ synthQueue = << >> /\ Pending("startSpeech") = {}

onClose(s) ==
    [s EXCEPT !.show.game = "closed", !.pgl = FALSE]

CloseFeature ==
    /\ show.game = "shown"
    /\ Do(onClose(Cur))

\* One exchange on any platform, and the user closing the feature it
\* launched.  No second output cancels the utterance.
NextClose ==
    \/ Tick \/ FireRestart \/ RecOnStart \/ RecOnEnd \/ RecOnResult \/ FireSilence
    \/ RequestSettled
    \/ FireStartSpeech \/ FireEmergency \/ FireTextOnly \/ FirePermDone \/ FireLaunch
    \/ UtterStart \/ UtterEnd \/ UtterError
    \/ SpeechMonitor \/ CloseFeature

SpecClose == InitListening /\ [][NextClose]_vars

\* C34: a feature the user has closed is not launched again unless a new
\* intent has been detected since, and closing leaves no launch token.
C34_ClosedStaysClosed ==
    /\ ~obs.reopened
    /\ show.game = "closed" => ~pendingGameLaunch

\* ------------------------------------------------- the owner of a token
\* page.tsx:1816-1854: the game reports its end; the modal is closed and a
\* remark is spoken by the speakResponse of the current render.
handleGameEnd(s) ==
    speakResponse([s EXCEPT !.show.game = "hidden"], Closure(s), FALSE)

GameEnd ==
    /\ show.game = "shown"
    /\ speakCalls < MaxSpeak
    /\ Do(handleGameEnd(Cur))

\* One exchange on a desktop browser with a working synthesizer while a
\* game launched by an earlier exchange is on screen, and that game ending.
\* Every utterance ends or is cancelled by the next output.
InitRemark ==
    /\ AtRestShowing([NoShow EXCEPT !.game = "shown"])
    /\ envClass = "normal" /\ synthAvailable /\ ~useFallbackAudio
    /\ NoText /\ NoFallback /\ Untimed /\ Unheard

NextRemark ==
    \/ Tick \/ FireRestart \/ RecOnStart \/ RecOnEnd \/ RecOnResult \/ FireSilence
    \/ RequestSettled \/ GameEnd
    \/ FireStartSpeech \/ FireEmergency \/ FireLaunch
    \/ UtterStart \/ UtterEnd \/ UtterInterrupted

SpecRemark == InitRemark /\ [][NextRemark]_vars

\* C35: a game is launched only by the speakResponse call that was handed
\* it with the answer to the utterance it was detected in, never by a call
\* that found the token in the pendingGameLaunch state.
C35_TokenOwnSpeak ==
    ~obs.stray

\* ------------------------------------------------- the audio context
\* new AudioContextClass() (page.tsx:868, 921); the count stops at two
newAudioContext(s) ==
    [s EXCEPT !.ctxCount = Min(@ + 1, 2),
              !.ctxBeforeGesture = @ \/ ~s.hui]

\* audioContext.resume() of a context just constructed is pending; the
\* state is set when it settles (page.tsx:875-882, 927-934)
AwaitResume(s) ==
    [s EXCEPT !.timers = @ \cup {Timer("resume", 0, 0, FALSE, MountClosure)}]

\* page.tsx:862-892 with the promise of lines 875-882 told apart from the
\* handler that created it
createAudioContextOnInteractionAsync(s, c, suspended) ==
    IF c.ctx \/ ~c.hui
    THEN s
    ELSE IF suspended
         THEN AwaitResume(newAudioContext(s))
         ELSE [newAudioContext(s) EXCEPT !.ctx = TRUE, !.ctxState = "running"]

\* page.tsx:895-945 with the await of line 927 told apart from the call.
\* For a context of the closure that is suspended the resume is awaited and
\* its outcome (born) returned (lines 904-917).
createAndResumeAudioContextAsync(s, c, suspended, born) ==
    IF ~c.hui
    THEN [s EXCEPT !.gateRefused = s.hui /\ ~s.ctx]
    ELSE IF c.ctx
         THEN IF s.ctxState = "suspended"
              THEN [s EXCEPT !.ctxState = born,
                             !.obs.resume = IF born = "suspended"
                                            THEN "existing" ELSE @,
                             !.obs.available = (born = "running")]
              ELSE s
         ELSE IF suspended
              THEN AwaitResume(newAudioContext(s))
              ELSE [newAudioContext(s) EXCEPT !.ctx = TRUE, !.ctxState = "running"]

\* lines 1048-1066 without the test of line 1050
playFallbackAudioUnchecked(s) ==
    playFallbackAudioInternal(
        [s EXCEPT !.obs.play = IF s.ctxState = "suspended"
                               THEN "blind" ELSE "running"])

\* page.tsx:1048-1066: the context of the closure is resumed when it is
\* suspended, and the tone is played whether the resume resolved or rejected
playFallbackAudioChecked(s, born) ==
    LET was == s.ctxState = "suspended"
    IN playFallbackAudioInternal(
           [s EXCEPT !.ctxState = IF was THEN born ELSE @,
                     !.obs.play = IF was THEN "retried" ELSE "running",
                     !.obs.resume = IF was /\ born = "suspended"
                                    THEN "existing" ELSE @,
                     !.obs.available = was /\ born = "suspended"])

\* page.tsx:1020-1073 up to the first await
playFallbackAudioAsync(s, c, suspended, born) ==
    IF ~c.ctx
    THEN createAndResumeAudioContextAsync(s, c, suspended, born)
    ELSE playFallbackAudioChecked(s, born)

\* a rejected resume drops the context
resumeSettledDropsContext(s, ok) ==
    IF ok
    THEN [s EXCEPT !.ctx = TRUE, !.ctxState = "running"]
    ELSE [s EXCEPT !.obs.resume = "new"]

\* the resume of a new context settles: setFallbackAudioContext(audioContext)
\* whether it resolved or rejected, and createAndResumeAudioContext returns
\* true (page.tsx:877, 881, 932-933, 937-938)
resumeSettled(s, ok) ==
    IF ok
    THEN [s EXCEPT !.ctx = TRUE, !.ctxState = "running"]
    ELSE [s EXCEPT !.ctx = TRUE, !.ctxState = "suspended",
                   !.obs.resume = "new", !.obs.available = TRUE]

ResumeSettled ==
    \E t \in Due("resume"), ok \in BOOLEAN :
        Do(resumeSettled(Without(t), ok))

\* the click on "Enable Microphone" or an age-group button (page.tsx:1180-1184,
\* 2788-2810)
RequestSpeechPermissionAsync ==
    \E suspended \in BOOLEAN :
        Do([createAudioContextOnInteractionAsync(Cur, Closure(Cur), suspended)
               EXCEPT !.hui = TRUE])

\* the click on "Test Fallback" (page.tsx:3094-3098)
TestFallbackButtonAsync ==
    \E suspended \in BOOLEAN, born \in Born :
        Do([playFallbackAudioAsync(Cur, Closure(Cur), suspended, born)
               EXCEPT !.hui = TRUE])

\* The audio gate of SpecGate with the resume of a new context as a step of
\* its own.
NextContext ==
    \/ Tick
    \/ FireTestSpeech \/ FireTestTimeout \/ TestUtterEvent \/ TestUtterInterrupted
    \/ HealthCheck \/ SystemRecovery
    \/ UserGesture \/ RequestSpeechPermissionAsync \/ TestFallbackButtonAsync
    \/ ResumeSettled
    \/ ExternalAudioStart \/ ExternalAudioStop

SpecContext == InitGate /\ [][NextContext]_vars

\* C37: no more than one audio context is constructed in a session.
C37_SingleContext ==
    ctxCount <= 1

\* C38: a failed resume leaves the context in the state and the handle is
\* handed on, for a new context and for an existing one; and no tone is
\* emitted on a context found suspended without a resume being tried first.
C38_ResumeNotFatal ==
    /\ obs.resume # "none" => fallbackAudioContext /\ obs.available
    /\ obs.play # "blind"

\* a tone has been played on a context whose resume had failed, after one
\* more resume that failed too
C38_Witness ==
    /\ obs.play = "retried" /\ obs.resume = "existing"
    /\ fallbackAudioContext /\ ctxState = "suspended"

\* ------------------------------------------------- the watchdog and the marker
\* C39: when the watchdog completes a call whose utterance the synthesizer
\* still holds, the marker of the broken primary tier is set.
C39_WatchdogMarks ==
    obs.hung => useFallbackAudio

\* ------------------------------------------------- the range of a time
\* the normalized 24-hour strings
ClockTimes == { HHMM(h, m) : h \in 0..23, m \in 0..59 }

\* C40: whatever extractTimeFromText returns, other than null, is HH:MM
\* with HH from 00 to 23 and MM from 00 to 59.
C40_NormalizedTime ==
    extracted \notin {"none", "pending", "null"} => extracted \in ClockTimes

====
